---------------------------- MODULE Spec2Model ----------------------------
(***************************************************************************)
(* State-machine model of the arbitration-data ingestion pipeline          *)
(* (DataProcessor, src/data_processor.py).                                 *)
(*                                                                         *)
(* A Python str is a sequence of one-character strings, so that substring  *)
(* tests, case folding, stripping and numeric parsing are computed the way *)
(* the code computes them.  A DataFrame is a sequence of rows; a row is a  *)
(* record of cells plus its pandas index label.                            *)
(***************************************************************************)
EXTENDS Integers, Sequences, FiniteSets, TLC

\* ------------------------------------------------------------------ text
\* str.lower() / str.upper() on one character
LowerChar(c) ==
    CASE
           c = "A" -> "a" [] c = "B" -> "b" [] c = "C" -> "c" [] c = "D" -> "d"
        [] c = "E" -> "e" [] c = "F" -> "f" [] c = "G" -> "g" [] c = "H" -> "h"
        [] c = "I" -> "i" [] c = "J" -> "j" [] c = "K" -> "k" [] c = "L" -> "l"
        [] c = "M" -> "m" [] c = "N" -> "n" [] c = "O" -> "o" [] c = "P" -> "p"
        [] c = "Q" -> "q" [] c = "R" -> "r" [] c = "S" -> "s" [] c = "T" -> "t"
        [] c = "U" -> "u" [] c = "V" -> "v" [] c = "W" -> "w" [] c = "X" -> "x"
        [] c = "Y" -> "y" [] c = "Z" -> "z"
        [] OTHER -> c

UpperChar(c) ==
    CASE
           c = "a" -> "A" [] c = "b" -> "B" [] c = "c" -> "C" [] c = "d" -> "D"
        [] c = "e" -> "E" [] c = "f" -> "F" [] c = "g" -> "G" [] c = "h" -> "H"
        [] c = "i" -> "I" [] c = "j" -> "J" [] c = "k" -> "K" [] c = "l" -> "L"
        [] c = "m" -> "M" [] c = "n" -> "N" [] c = "o" -> "O" [] c = "p" -> "P"
        [] c = "q" -> "Q" [] c = "r" -> "R" [] c = "s" -> "S" [] c = "t" -> "T"
        [] c = "u" -> "U" [] c = "v" -> "V" [] c = "w" -> "W" [] c = "x" -> "X"
        [] c = "y" -> "Y" [] c = "z" -> "Z"
        [] OTHER -> c

Lower(s) == [i \in 1..Len(s) |-> LowerChar(s[i])]

Upper(s) == [i \in 1..Len(s) |-> UpperChar(s[i])]

\* Python `needle in hay` for strings
Contains(needle, hay) ==
    \E i \in 0..(Len(hay) - Len(needle)) : SubSeq(hay, i + 1, i + Len(needle)) = needle

\* Series.str.contains(pat, case=False) on one string value
ContainsNoCase(pat, s) == Contains(Lower(pat), Lower(s))

\* characters matched by \s
IsSpace(c) == c \in {" ", "\t"}

\* characters matched by \d
IsDigit(c) == c \in {"0", "1", "2", "3", "4", "5", "6", "7", "8", "9"}

RECURSIVE LStrip(_)
LStrip(s) == IF s # <<>> /\ IsSpace(Head(s)) THEN LStrip(Tail(s)) ELSE s

RECURSIVE RStrip(_)
RStrip(s) ==
    IF s # <<>> /\ IsSpace(s[Len(s)]) THEN RStrip(SubSeq(s, 1, Len(s) - 1)) ELSE s

\* str.strip()
Strip(s) == RStrip(LStrip(s))

\* re.sub(r'\s+', ' ', s): every maximal run of whitespace becomes one space
RECURSIVE CollapseSpaces(_)
CollapseSpaces(s) ==
    IF s = <<>> THEN <<>>
    ELSE IF IsSpace(Head(s))
         THEN <<" ">> \o CollapseSpaces(LStrip(s))
         ELSE <<Head(s)>> \o CollapseSpaces(Tail(s))

\* str.capitalize(): first character upper-cased, the rest lower-cased
Capitalize(s) ==
    IF s = <<>> THEN <<>> ELSE <<UpperChar(Head(s))>> \o Lower(Tail(s))

\* ' '.join(list of str)
RECURSIVE JoinWithSpace(_)
JoinWithSpace(ss) ==
    IF ss = <<>> THEN <<>>
    ELSE IF Len(ss) = 1 THEN ss[1]
    ELSE ss[1] \o <<" ">> \o JoinWithSpace(Tail(ss))

\* ------------------------------------------------------- alias tables
\* DataProcessor.__init__: self.field_mappings['AAA'] and ['JAMS']
field_mappings_AAA ==
  [ case_id |-> <<
        <<"C","a","s","e"," ","I","D">>,   \* 'Case ID'
        <<"C","a","s","e"," ","N","u","m","b","e","r">>,   \* 'Case Number'
        <<"C","a","s","e"," ","N","o",".">>,   \* 'Case No.'
        <<"C","a","s","e","_","I","D">>,   \* 'Case_ID'
        <<"C","A","S","E","_","I","D">>    \* 'CASE_ID'
      >>,
    case_name |-> <<
        <<"C","a","s","e"," ","N","a","m","e">>,   \* 'Case Name'
        <<"C","a","s","e","_","N","a","m","e">>    \* 'Case_Name'
      >>,
    arbitrator_name |-> <<
        <<"A","r","b","i","t","r","a","t","o","r"," ","N","a","m","e">>,   \* 'Arbitrator Name'
        <<"A","r","b","i","t","r","a","t","o","r">>,   \* 'Arbitrator'
        <<"A","r","b","i","t","r","a","t","o","r","_","N","a","m","e">>,   \* 'Arbitrator_Name'
        <<"A","R","B","I","T","R","A","T","O","R","_","N","A","M","E">>    \* 'ARBITRATOR_NAME'
      >>,
    respondent_name |-> <<
        <<"R","e","s","p","o","n","d","e","n","t"," ","N","a","m","e">>,   \* 'Respondent Name'
        <<"R","e","s","p","o","n","d","e","n","t">>,   \* 'Respondent'
        <<"C","o","m","p","a","n","y">>,   \* 'Company'
        <<"B","u","s","i","n","e","s","s">>,   \* 'Business'
        <<"R","e","s","p","o","n","d","e","n","t","_","N","a","m","e">>,   \* 'Respondent_Name'
        <<"N","O","N","C","O","N","S","U","M","E","R">>    \* 'NONCONSUMER'
      >>,
    consumer_attorney |-> <<
        <<"C","o","n","s","u","m","e","r"," ","A","t","t","o","r","n","e","y">>,   \* 'Consumer Attorney'
        <<"C","l","a","i","m","a","n","t"," ","A","t","t","o","r","n","e","y">>,   \* 'Claimant Attorney'
        <<"C","o","n","s","u","m","e","r","_","A","t","t","o","r","n","e","y">>,   \* 'Consumer_Attorney'
        <<"C","o","n","s","u","m","e","r"," ","A","t","t","o","r","n","e","y"," ","N","a","m","e">>,   \* 'Consumer Attorney Name'
        <<"N","A","M","E","_","C","O","N","S","U","M","E","R","_","A","T","T","O","R","N","E","Y">>    \* 'NAME_CONSUMER_ATTORNEY'
      >>,
    respondent_attorney |-> <<
        <<"R","e","s","p","o","n","d","e","n","t"," ","A","t","t","o","r","n","e","y">>,   \* 'Respondent Attorney'
        <<"C","o","m","p","a","n","y"," ","A","t","t","o","r","n","e","y">>,   \* 'Company Attorney'
        <<"R","e","s","p","o","n","d","e","n","t","_","A","t","t","o","r","n","e","y">>    \* 'Respondent_Attorney'
      >>,
    disposition_type |-> <<
        <<"T","y","p","e"," ","o","f"," ","D","i","s","p","o","s","i","t","i","o","n">>,   \* 'Type of Disposition'
        <<"D","i","s","p","o","s","i","t","i","o","n">>,   \* 'Disposition'
        <<"C","a","s","e"," ","O","u","t","c","o","m","e">>,   \* 'Case Outcome'
        <<"D","i","s","p","o","s","i","t","i","o","n","_","T","y","p","e">>,   \* 'Disposition_Type'
        <<"T","Y","P","E","_","O","F","_","D","I","S","P","O","S","I","T","I","O","N">>    \* 'TYPE_OF_DISPOSITION'
      >>,
    date_filed |-> <<
        <<"D","a","t","e"," ","F","i","l","e","d">>,   \* 'Date Filed'
        <<"F","i","l","i","n","g"," ","D","a","t","e">>,   \* 'Filing Date'
        <<"D","a","t","e","_","F","i","l","e","d">>,   \* 'Date_Filed'
        <<"F","I","L","I","N","G","_","D","A","T","E">>    \* 'FILING_DATE'
      >>,
    date_closed |-> <<
        <<"D","a","t","e"," ","C","l","o","s","e","d">>,   \* 'Date Closed'
        <<"C","l","o","s","i","n","g"," ","D","a","t","e">>,   \* 'Closing Date'
        <<"D","a","t","e","_","C","l","o","s","e","d">>,   \* 'Date_Closed'
        <<"C","L","O","S","E","D","A","T","E">>    \* 'CLOSEDATE'
      >>,
    award_amount |-> <<
        <<"A","w","a","r","d"," ","A","m","o","u","n","t">>,   \* 'Award Amount'
        <<"A","w","a","r","d">>,   \* 'Award'
        <<"A","w","a","r","d","_","A","m","o","u","n","t">>,   \* 'Award_Amount'
        <<"A","W","A","R","D","_","A","M","T","_","C","O","N","S","U","M","E","R">>    \* 'AWARD_AMT_CONSUMER'
      >>,
    claim_amount |-> <<
        <<"C","l","a","i","m"," ","A","m","o","u","n","t">>,   \* 'Claim Amount'
        <<"D","e","m","a","n","d"," ","A","m","o","u","n","t">>,   \* 'Demand Amount'
        <<"C","l","a","i","m","_","A","m","o","u","n","t">>,   \* 'Claim_Amount'
        <<"C","L","A","I","M","_","A","M","T","_","C","O","N","S","U","M","E","R">>    \* 'CLAIM_AMT_CONSUMER'
      >> ]

field_mappings_JAMS ==
  [ case_id |-> <<
        <<"C","a","s","e"," ","I","D">>,   \* 'Case ID'
        <<"C","a","s","e"," ","#">>,   \* 'Case #'
        <<"C","a","s","e"," ","N","u","m","b","e","r">>,   \* 'Case Number'
        <<"R","e","f","e","r","e","n","c","e"," ","N","u","m","b","e","r">>,   \* 'Reference Number'
        <<"C","a","s","e","_","I","D">>,   \* 'Case_ID'
        <<"C","A","S","E","_","I","D">>    \* 'CASE_ID'
      >>,
    case_name |-> <<
        <<"C","a","s","e"," ","N","a","m","e">>,   \* 'Case Name'
        <<"C","a","s","e"," ","T","i","t","l","e">>,   \* 'Case Title'
        <<"C","a","s","e","_","N","a","m","e">>    \* 'Case_Name'
      >>,
    arbitrator_name |-> <<
        <<"A","r","b","i","t","r","a","t","o","r"," ","N","a","m","e">>,   \* 'Arbitrator Name'
        <<"A","r","b","i","t","r","a","t","o","r">>,   \* 'Arbitrator'
        <<"N","e","u","t","r","a","l">>,   \* 'Neutral'
        <<"A","r","b","i","t","r","a","t","o","r","_","N","a","m","e">>,   \* 'Arbitrator_Name'
        <<"A","R","B","I","T","R","A","T","O","R","_","N","A","M","E">>    \* 'ARBITRATOR_NAME'
      >>,
    respondent_name |-> <<
        <<"R","e","s","p","o","n","d","e","n","t"," ","N","a","m","e">>,   \* 'Respondent Name'
        <<"R","e","s","p","o","n","d","e","n","t">>,   \* 'Respondent'
        <<"C","o","m","p","a","n","y">>,   \* 'Company'
        <<"B","u","s","i","n","e","s","s">>,   \* 'Business'
        <<"R","e","s","p","o","n","d","e","n","t","_","N","a","m","e">>,   \* 'Respondent_Name'
        <<"N","O","N","C","O","N","S","U","M","E","R">>    \* 'NONCONSUMER'
      >>,
    consumer_attorney |-> <<
        <<"C","o","n","s","u","m","e","r"," ","A","t","t","o","r","n","e","y">>,   \* 'Consumer Attorney'
        <<"C","l","a","i","m","a","n","t"," ","A","t","t","o","r","n","e","y">>,   \* 'Claimant Attorney'
        <<"C","o","n","s","u","m","e","r","_","A","t","t","o","r","n","e","y">>,   \* 'Consumer_Attorney'
        <<"C","o","n","s","u","m","e","r"," ","A","t","t","o","r","n","e","y"," ","N","a","m","e">>,   \* 'Consumer Attorney Name'
        <<"N","A","M","E","_","C","O","N","S","U","M","E","R","_","A","T","T","O","R","N","E","Y">>    \* 'NAME_CONSUMER_ATTORNEY'
      >>,
    respondent_attorney |-> <<
        <<"R","e","s","p","o","n","d","e","n","t"," ","A","t","t","o","r","n","e","y">>,   \* 'Respondent Attorney'
        <<"C","o","m","p","a","n","y"," ","A","t","t","o","r","n","e","y">>,   \* 'Company Attorney'
        <<"R","e","s","p","o","n","d","e","n","t","_","A","t","t","o","r","n","e","y">>    \* 'Respondent_Attorney'
      >>,
    disposition_type |-> <<
        <<"T","y","p","e"," ","o","f"," ","D","i","s","p","o","s","i","t","i","o","n">>,   \* 'Type of Disposition'
        <<"D","i","s","p","o","s","i","t","i","o","n">>,   \* 'Disposition'
        <<"C","a","s","e"," ","O","u","t","c","o","m","e">>,   \* 'Case Outcome'
        <<"R","e","s","u","l","t">>,   \* 'Result'
        <<"D","i","s","p","o","s","i","t","i","o","n","_","T","y","p","e">>,   \* 'Disposition_Type'
        <<"T","Y","P","E","_","O","F","_","D","I","S","P","O","S","I","T","I","O","N">>    \* 'TYPE_OF_DISPOSITION'
      >>,
    date_filed |-> <<
        <<"D","a","t","e"," ","F","i","l","e","d">>,   \* 'Date Filed'
        <<"F","i","l","i","n","g"," ","D","a","t","e">>,   \* 'Filing Date'
        <<"D","a","t","e","_","F","i","l","e","d">>,   \* 'Date_Filed'
        <<"D","a","t","e"," ","o","f"," ","F","i","l","i","n","g">>,   \* 'Date of Filing'
        <<"F","I","L","I","N","G","_","D","A","T","E">>    \* 'FILING_DATE'
      >>,
    date_closed |-> <<
        <<"D","a","t","e"," ","C","l","o","s","e","d">>,   \* 'Date Closed'
        <<"C","l","o","s","i","n","g"," ","D","a","t","e">>,   \* 'Closing Date'
        <<"D","a","t","e","_","C","l","o","s","e","d">>,   \* 'Date_Closed'
        <<"D","a","t","e"," ","o","f"," ","R","e","s","o","l","u","t","i","o","n">>,   \* 'Date of Resolution'
        <<"C","L","O","S","E","D","A","T","E">>    \* 'CLOSEDATE'
      >>,
    award_amount |-> <<
        <<"A","w","a","r","d"," ","A","m","o","u","n","t">>,   \* 'Award Amount'
        <<"A","w","a","r","d">>,   \* 'Award'
        <<"A","w","a","r","d","_","A","m","o","u","n","t">>,   \* 'Award_Amount'
        <<"A","W","A","R","D","_","A","M","T","_","C","O","N","S","U","M","E","R">>    \* 'AWARD_AMT_CONSUMER'
      >>,
    claim_amount |-> <<
        <<"C","l","a","i","m"," ","A","m","o","u","n","t">>,   \* 'Claim Amount'
        <<"D","e","m","a","n","d"," ","A","m","o","u","n","t">>,   \* 'Demand Amount'
        <<"C","l","a","i","m","_","A","m","o","u","n","t">>,   \* 'Claim_Amount'
        <<"C","L","A","I","M","_","A","M","T","_","C","O","N","S","U","M","E","R">>    \* 'CLAIM_AMT_CONSUMER'
      >> ]


field_mappings(source) ==
    IF source = "AAA" THEN field_mappings_AAA ELSE field_mappings_JAMS

\* ------------------------------------------------------------- cells
\* A cell is None/NaN/NaT (Null), a str, an int read from a numeric cell,
\* a float produced by _extract_amount, a timestamp, or a bool.
Null == [k |-> "null"]

Str(s) == [k |-> "str", s |-> s]

Num(n) == [k |-> "num", n |-> n]

\* the float m / 10^e, with e minimal (so equal floats are equal values)
Float(m, e) == [k |-> "float", m |-> m, e |-> e]

\* a timestamp, in hours since 0001-01-01 00:00
Date(t) == [k |-> "date", t |-> t]

Bool(b) == [k |-> "bool", b |-> b]

IsNull(c) == c.k = "null"

IsStr(c) == c.k = "str"

\* -------------------------------------------------- _clean_string
\* str(value) for an int
RECURSIVE DigitsOf(_)
DigitsOf(n) ==
    LET d == <<"0", "1", "2", "3", "4", "5", "6", "7", "8", "9">>[(n % 10) + 1]
    IN  IF n < 10 THEN <<d>> ELSE DigitsOf(n \div 10) \o <<d>>

IntToStr(n) == IF n < 0 THEN <<"-">> \o DigitsOf(-n) ELSE DigitsOf(n)

\* str(value)
ToStr(c) == IF c.k = "num" THEN IntToStr(c.n) ELSE c.s

\* _clean_string: str(value).strip(), then whitespace runs collapsed
clean_string(c) == IF IsNull(c) THEN Null ELSE Str(CollapseSpaces(Strip(ToStr(c))))

\* ------------------------------------------------ _extract_amount
\* re.sub(r'[^\d.-]', '', value)
RECURSIVE KeepAmountChars(_)
KeepAmountChars(s) ==
    IF s = <<>> THEN <<>>
    ELSE IF IsDigit(Head(s)) \/ Head(s) \in {".", "-"}
         THEN <<Head(s)>> \o KeepAmountChars(Tail(s))
         ELSE KeepAmountChars(Tail(s))

DigitValue(c) ==
    CASE c = "0" -> 0 [] c = "1" -> 1 [] c = "2" -> 2 [] c = "3" -> 3 [] c = "4" -> 4
      [] c = "5" -> 5 [] c = "6" -> 6 [] c = "7" -> 7 [] c = "8" -> 8 [] c = "9" -> 9

RECURSIVE DigitsValue(_)
DigitsValue(s) ==
    IF s = <<>> THEN 0 ELSE DigitsValue(SubSeq(s, 1, Len(s) - 1)) * 10 + DigitValue(s[Len(s)])

AllDigits(s) == \A i \in 1..Len(s) : IsDigit(s[i])

\* the float m / 10^e with trailing zero decimals removed
RECURSIVE NormFloat(_, _)
NormFloat(m, e) ==
    IF e > 0 /\ m % 10 = 0 THEN NormFloat(m \div 10, e - 1) ELSE Float(m, e)

\* float(s) for s over digits, '.' and '-': an optional sign, then digits with at
\* most one '.', at least one digit; anything else raises ValueError (Null here)
ParseFloat(s) ==
    LET neg  == s # <<>> /\ Head(s) = "-"
        body == IF neg THEN Tail(s) ELSE s
        dots == {i \in 1..Len(body) : body[i] = "."}
        ip   == IF dots = {} THEN body
                ELSE SubSeq(body, 1, (CHOOSE i \in dots : TRUE) - 1)
        fp   == IF dots = {} THEN <<>>
                ELSE SubSeq(body, (CHOOSE i \in dots : TRUE) + 1, Len(body))
        ok   == /\ Cardinality(dots) <= 1
                /\ AllDigits(ip) /\ AllDigits(fp)
                /\ Len(ip) + Len(fp) >= 1
        mag  == DigitsValue(ip \o fp)
    IN  IF ~ok THEN Null
        ELSE NormFloat(IF neg THEN -mag ELSE mag, Len(fp))

\* _extract_amount
extract_amount(c) ==
    IF IsNull(c) THEN Null
    ELSE IF c.k = "num" THEN Float(c.n, 0)
    ELSE IF c.k = "float" THEN c
    ELSE ParseFloat(KeepAmountChars(ToStr(c)))

\* ----------------------------------------- _standardize_disposition
\* a variant of _standardize_disposition without the 'awarded'/'award' test
standardize_disposition_no_award(c) ==
    IF IsNull(c) THEN Null
    ELSE
      LET value == Lower(c.s)
      IN  IF Contains(<<"s","e","t","t","l","e","d">>, value) \/ Contains(<<"s","e","t","t","l","e","m","e","n","t">>, value)
            THEN Str(<<"S","e","t","t","l","e","d">>)
          ELSE IF Contains(<<"d","i","s","m","i","s","s","e","d">>, value) /\ Contains(<<"m","e","r","i","t">>, value)
            THEN Str(<<"D","i","s","m","i","s","s","e","d"," ","o","n"," ","t","h","e"," ","M","e","r","i","t","s">>)
          ELSE IF Contains(<<"d","i","s","m","i","s","s","e","d">>, value) \/ Contains(<<"d","i","s","m","i","s","s","a","l">>, value)
            THEN Str(<<"D","i","s","m","i","s","s","e","d">>)
          ELSE IF Contains(<<"w","i","t","h","d","r","a","w","n">>, value)
            THEN Str(<<"W","i","t","h","d","r","a","w","n">>)
          ELSE IF Contains(<<"a","d","m","i","n","i","s","t","r","a","t","i","v","e">>, value) \/ Contains(<<"a","d","m","i","n">>, value)
            THEN Str(<<"A","d","m","i","n","i","s","t","r","a","t","i","v","e">>)
          ELSE Str(Capitalize(value))

\* a variant of _standardize_disposition that tests plain 'dismissed'/'dismissal'
\* before 'dismissed' with 'merit'
standardize_disposition_dismissed_first(c) ==
    IF IsNull(c) THEN Null
    ELSE
      LET value == Lower(c.s)
      IN  IF Contains(<<"s","e","t","t","l","e","d">>, value) \/ Contains(<<"s","e","t","t","l","e","m","e","n","t">>, value)
            THEN Str(<<"S","e","t","t","l","e","d">>)
          ELSE IF Contains(<<"d","i","s","m","i","s","s","e","d">>, value) \/ Contains(<<"d","i","s","m","i","s","s","a","l">>, value)
            THEN Str(<<"D","i","s","m","i","s","s","e","d">>)
          ELSE IF Contains(<<"d","i","s","m","i","s","s","e","d">>, value) /\ Contains(<<"m","e","r","i","t">>, value)
            THEN Str(<<"D","i","s","m","i","s","s","e","d"," ","o","n"," ","t","h","e"," ","M","e","r","i","t","s">>)
          ELSE IF Contains(<<"w","i","t","h","d","r","a","w","n">>, value)
            THEN Str(<<"W","i","t","h","d","r","a","w","n">>)
          ELSE IF Contains(<<"a","w","a","r","d","e","d">>, value) \/ Contains(<<"a","w","a","r","d">>, value)
            THEN Str(<<"A","w","a","r","d","e","d">>)
          ELSE IF Contains(<<"a","d","m","i","n","i","s","t","r","a","t","i","v","e">>, value) \/ Contains(<<"a","d","m","i","n">>, value)
            THEN Str(<<"A","d","m","i","n","i","s","t","r","a","t","i","v","e">>)
          ELSE Str(Capitalize(value))

\* a variant of _standardize_disposition without value = value.lower()
standardize_disposition_case_sensitive(c) ==
    IF IsNull(c) THEN Null
    ELSE
      LET value == c.s
      IN  IF Contains(<<"s","e","t","t","l","e","d">>, value) \/ Contains(<<"s","e","t","t","l","e","m","e","n","t">>, value)
            THEN Str(<<"S","e","t","t","l","e","d">>)
          ELSE IF Contains(<<"d","i","s","m","i","s","s","e","d">>, value) /\ Contains(<<"m","e","r","i","t">>, value)
            THEN Str(<<"D","i","s","m","i","s","s","e","d"," ","o","n"," ","t","h","e"," ","M","e","r","i","t","s">>)
          ELSE IF Contains(<<"d","i","s","m","i","s","s","e","d">>, value) \/ Contains(<<"d","i","s","m","i","s","s","a","l">>, value)
            THEN Str(<<"D","i","s","m","i","s","s","e","d">>)
          ELSE IF Contains(<<"w","i","t","h","d","r","a","w","n">>, value)
            THEN Str(<<"W","i","t","h","d","r","a","w","n">>)
          ELSE IF Contains(<<"a","w","a","r","d","e","d">>, value) \/ Contains(<<"a","w","a","r","d">>, value)
            THEN Str(<<"A","w","a","r","d","e","d">>)
          ELSE IF Contains(<<"a","d","m","i","n","i","s","t","r","a","t","i","v","e">>, value) \/ Contains(<<"a","d","m","i","n">>, value)
            THEN Str(<<"A","d","m","i","n","i","s","t","r","a","t","i","v","e">>)
          ELSE Str(Capitalize(value))

\* _standardize_disposition
standardize_disposition(c) ==
    IF IsNull(c) THEN Null
    ELSE
      LET value == Lower(c.s)
      IN  IF Contains(<<"s","e","t","t","l","e","d">>, value) \/ Contains(<<"s","e","t","t","l","e","m","e","n","t">>, value)
            THEN Str(<<"S","e","t","t","l","e","d">>)
          ELSE IF Contains(<<"d","i","s","m","i","s","s","e","d">>, value) /\ Contains(<<"m","e","r","i","t">>, value)
            THEN Str(<<"D","i","s","m","i","s","s","e","d"," ","o","n"," ","t","h","e"," ","M","e","r","i","t","s">>)
          ELSE IF Contains(<<"d","i","s","m","i","s","s","e","d">>, value) \/ Contains(<<"d","i","s","m","i","s","s","a","l">>, value)
            THEN Str(<<"D","i","s","m","i","s","s","e","d">>)
          ELSE IF Contains(<<"w","i","t","h","d","r","a","w","n">>, value)
            THEN Str(<<"W","i","t","h","d","r","a","w","n">>)
          ELSE IF Contains(<<"a","w","a","r","d","e","d">>, value) \/ Contains(<<"a","w","a","r","d">>, value)
            THEN Str(<<"A","w","a","r","d","e","d">>)
          ELSE IF Contains(<<"a","d","m","i","n","i","s","t","r","a","t","i","v","e">>, value) \/ Contains(<<"a","d","m","i","n">>, value)
            THEN Str(<<"A","d","m","i","n","i","s","t","r","a","t","i","v","e">>)
          ELSE Str(Capitalize(value))

\* ------------------------------------------------------------- dates
IsLeap(y) == (y % 4 = 0 /\ y % 100 # 0) \/ y % 400 = 0

DaysInMonth(y, m) ==
    IF m = 2 THEN (IF IsLeap(y) THEN 29 ELSE 28)
    ELSE IF m \in {4, 6, 9, 11} THEN 30 ELSE 31

RECURSIVE DaysBeforeMonth(_, _)
DaysBeforeMonth(y, m) ==
    IF m = 1 THEN 0 ELSE DaysBeforeMonth(y, m - 1) + DaysInMonth(y, m - 1)

\* proleptic Gregorian day number of y-m-d (0001-01-01 is day 1)
Ordinal(y, m, d) ==
    LET p == y - 1
    IN  365 * p + (p \div 4) - (p \div 100) + (p \div 400) + DaysBeforeMonth(y, m) + d

\* the timestamp cell of the datetime y-m-d h:00
Timestamp(y, m, d, h) == Date(Ordinal(y, m, d) * 24 + h)

\* pd.to_datetime(cell, errors='coerce') on one cell: a datetime is kept, None
\* stays NaT, and text that is no date is coerced to NaT.  The date columns of
\* the inputs hold datetimes, blanks and such text only (no numbers, no date text).
to_datetime(c) == IF c.k = "date" THEN c ELSE Null

\* ------------------------------------------------------ Schema Mapper
\* the elements of a sequence
Range(s) == {s[i] : i \in 1..Len(s)}

\* index of the first TRUE of a sequence of booleans, 0 when there is none:
\* the position at which a `for ...: if ...: return` loop returns
RECURSIVE FirstTrueFrom(_, _)
FirstTrueFrom(bs, i) ==
    IF i > Len(bs) THEN 0 ELSE IF bs[i] THEN i ELSE FirstTrueFrom(bs, i + 1)

FirstTrue(bs) == FirstTrueFrom(bs, 1)

\* the test of the partial-match loop of _map_column, for one alias and one column
PartialMatch(name, col) ==
    /\ Contains(Lower(name), Lower(col)) \/ Contains(Lower(col), Lower(name))
    /\ Len(name) >= 4 \/ Len(col) >= 4

\* a variant of _map_column that runs the case-insensitive loop before the exact one
match_column_nocase_first(possible_names, columns, lowered) ==
    LET exact == FirstTrue([i \in 1..Len(possible_names) |->
                               possible_names[i] \in Range(columns)])
        nocase == FirstTrue([i \in 1..Len(possible_names) |->
                                Lower(possible_names[i]) \in Range(lowered)])
        partialCol == [i \in 1..Len(possible_names) |->
                          FirstTrue([j \in 1..Len(columns) |->
                                        PartialMatch(possible_names[i], columns[j])])]
        partial == FirstTrue([i \in 1..Len(possible_names) |-> partialCol[i] > 0])
    IN  IF nocase > 0
          THEN Str(columns[FirstTrue([j \in 1..Len(columns) |->
                                         lowered[j] = Lower(possible_names[nocase])])])
        ELSE IF exact > 0 THEN Str(possible_names[exact])
        ELSE IF partial > 0 THEN Str(columns[partialCol[partial]])
        ELSE Null

\* the three loops of _map_column over the aliases possible_names of a field, given
\* the column names and their lower-cased forms: the matched column name (a Str
\* cell), or Null for None
match_column(possible_names, columns, lowered) ==
    LET exact == FirstTrue([i \in 1..Len(possible_names) |->
                               possible_names[i] \in Range(columns)])
        nocase == FirstTrue([i \in 1..Len(possible_names) |->
                                Lower(possible_names[i]) \in Range(lowered)])
        \* for each alias, the first column it partially matches (0: none)
        partialCol == [i \in 1..Len(possible_names) |->
                          FirstTrue([j \in 1..Len(columns) |->
                                        PartialMatch(possible_names[i], columns[j])])]
        partial == FirstTrue([i \in 1..Len(possible_names) |-> partialCol[i] > 0])
    IN  IF exact > 0 THEN Str(possible_names[exact])
        ELSE IF nocase > 0
          THEN Str(columns[FirstTrue([j \in 1..Len(columns) |->
                                         lowered[j] = Lower(possible_names[nocase])])])
        ELSE IF partial > 0 THEN Str(columns[partialCol[partial]])
        ELSE Null

\* _map_column
map_column(columns, field_type, source) ==
    match_column(field_mappings(source)[field_type], columns,
                 [j \in 1..Len(columns) |-> Lower(columns[j])])

\* _process_dataframe: the (field_type, standard_col) pairs, in loop order
FieldTypes ==
    << "case_id", "arbitrator_name", "respondent_name", "consumer_attorney",
       "respondent_attorney", "disposition_type", "date_filed", "date_closed",
       "award_amount", "claim_amount" >>

standard_col ==
    [ case_id             |-> <<"C","a","s","e","_","I","D">>,
      arbitrator_name     |-> <<"A","r","b","i","t","r","a","t","o","r","_","N","a","m","e">>,
      respondent_name     |-> <<"R","e","s","p","o","n","d","e","n","t","_","N","a","m","e">>,
      consumer_attorney   |-> <<"C","o","n","s","u","m","e","r","_","A","t","t","o","r","n","e","y">>,
      respondent_attorney |-> <<"R","e","s","p","o","n","d","e","n","t","_","A","t","t","o","r","n","e","y">>,
      disposition_type    |-> <<"D","i","s","p","o","s","i","t","i","o","n","_","T","y","p","e">>,
      date_filed          |-> <<"D","a","t","e","_","F","i","l","e","d">>,
      date_closed         |-> <<"D","a","t","e","_","C","l","o","s","e","d">>,
      award_amount        |-> <<"A","w","a","r","d","_","A","m","o","u","n","t">>,
      claim_amount        |-> <<"C","l","a","i","m","_","A","m","o","u","n","t">> ]

\* _process_dataframe, the body of the mapping loop for one field, orig_col being
\* what _map_column returned: the input column the canonical column is filled
\* from, or Null when it is set to None.  `if orig_col:` is a truth test, so an
\* empty column name counts as no match.
direct_match(orig_col, columns, field_type) ==
    LET direct == FirstTrue([j \in 1..Len(columns) |->
                                Upper(columns[j]) = Upper(standard_col[field_type])])
    IN  IF ~IsNull(orig_col) /\ orig_col.s # <<>> THEN orig_col
        ELSE IF direct > 0 THEN Str(columns[direct])
        ELSE Null

resolve_column(columns, field_type, source) ==
    direct_match(map_column(columns, field_type, source), columns, field_type)

\* the whole mapping loop: canonical field -> input column name or Null
column_mapping(columns, source) ==
    [ case_id             |-> resolve_column(columns, "case_id", source),
      arbitrator_name     |-> resolve_column(columns, "arbitrator_name", source),
      respondent_name     |-> resolve_column(columns, "respondent_name", source),
      consumer_attorney   |-> resolve_column(columns, "consumer_attorney", source),
      respondent_attorney |-> resolve_column(columns, "respondent_attorney", source),
      disposition_type    |-> resolve_column(columns, "disposition_type", source),
      date_filed          |-> resolve_column(columns, "date_filed", source),
      date_closed         |-> resolve_column(columns, "date_closed", source),
      award_amount        |-> resolve_column(columns, "award_amount", source),
      claim_amount        |-> resolve_column(columns, "claim_amount", source) ]

\* ------------------------------------------------- Record Normalizer
\* An input table (what pd.read_excel returns for a file or a chunk) is
\*   [columns |-> sequence of column names, rows |-> sequence of rows],
\* a row being the sequence of its cells, one per column.

ColumnIndex(columns, name) == FirstTrue([j \in 1..Len(columns) |-> columns[j] = name])

\* the dtype pandas gives a column: cells of one numeric or datetime kind (with
\* blanks) make a float64 or datetime64 column, an all-blank column read from the
\* file is float64 (NaN), anything else is object
ColumnDtype(cells) ==
    IF cells = <<>> THEN "object"
    ELSE IF \A r \in 1..Len(cells) : cells[r].k \in {"null", "num"} THEN "float64"
    ELSE IF \A r \in 1..Len(cells) : cells[r].k \in {"null", "date"} THEN "datetime64"
    ELSE "object"

\* _clean_dataframe, first loop: in an object column every non-None value goes
\* through _clean_string.  A datetime held in an object column is turned into text
\* by str() and read back by pd.to_datetime; that round trip of the two libraries
\* is kept as the timestamp itself.
CleanObject(dtype, c) ==
    IF dtype = "object" /\ c.k \in {"str", "num"} THEN clean_string(c) ELSE c

\* the position of df[orig_col] among the input columns (0 for an unmapped field)
MappedIndex(df, col) == IF IsNull(col) THEN 0 ELSE ColumnIndex(df.columns, col.s)

\* the dtype of processed_df[standard_col]; the column set to None is object
MappedDtype(df, col) ==
    LET idx == MappedIndex(df, col)
    IN  IF idx = 0 THEN "object"
        ELSE ColumnDtype([r \in 1..Len(df.rows) |-> df.rows[r][idx]])

\* processed_df[standard_col] after the first loop of _clean_dataframe:
\* df[orig_col] with its text cleaned, or the all-None column of an unmapped field
MappedColumn(df, col) ==
    LET idx   == MappedIndex(df, col)
        dtype == MappedDtype(df, col)
    IN  [r \in 1..Len(df.rows) |->
            IF idx = 0 THEN Null ELSE CleanObject(dtype, df.rows[r][idx])]

\* _clean_dataframe: the Disposition_Type column is passed cell by cell to
\* _standardize_disposition, whose value.lower() raises AttributeError on anything
\* that is neither None nor a str: the NaN, number or timestamp cells of a column
\* that is not of object dtype (in an object column every value is None or, after
\* _clean_string, a str)
clean_dataframe_raises(df, mapping) ==
    /\ Len(df.rows) > 0
    /\ MappedDtype(df, mapping.disposition_type) # "object"

\* _process_dataframe up to and including _clean_dataframe
CleanedRows(df, mapping, source) ==
    LET case_id     == MappedColumn(df, mapping.case_id)
        arbitrator  == MappedColumn(df, mapping.arbitrator_name)
        respondent  == MappedColumn(df, mapping.respondent_name)
        consumer    == MappedColumn(df, mapping.consumer_attorney)
        attorney    == MappedColumn(df, mapping.respondent_attorney)
        disposition == MappedColumn(df, mapping.disposition_type)
        filed       == MappedColumn(df, mapping.date_filed)
        closed      == MappedColumn(df, mapping.date_closed)
        award       == MappedColumn(df, mapping.award_amount)
        claim       == MappedColumn(df, mapping.claim_amount)
    IN  [r \in 1..Len(df.rows) |->
          [ Index               |-> r - 1,
            Case_ID             |-> case_id[r],
            Arbitrator_Name     |-> arbitrator[r],
            Respondent_Name     |-> respondent[r],
            Consumer_Attorney   |-> consumer[r],
            Respondent_Attorney |-> attorney[r],
            Disposition_Type    |-> standardize_disposition(disposition[r]),
            Date_Filed          |-> to_datetime(filed[r]),
            Date_Closed         |-> to_datetime(closed[r]),
            Award_Amount        |-> extract_amount(award[r]),
            Claim_Amount        |-> extract_amount(claim[r]),
            Forum               |-> Str(source) ]]

\* Series.fillna('Unknown') on one cell
FillUnknown(c) == IF IsNull(c) THEN Str(<<"U","n","k","n","o","w","n">>) ELSE c

\* _process_dataframe: the required-field filter, one field after the other
RequiredFilter(rows) ==
    LET hasCase(row) == ~IsNull(row.Case_ID)
        hasArb(row)  == ~IsNull(row.Arbitrator_Name)
    IN  SelectSeq(SelectSeq(rows, hasCase), hasArb)

\* _process_dataframe after the mapping loop: _clean_dataframe, the 'Unknown'
\* fallback and the required-field filter.  The result tells the column every
\* field is mapped from, whether _clean_dataframe raises, and (when it does not)
\* the normalized rows.
normalize(df, mapping, source, cleaned) ==
    [ mapping |-> mapping,
      raised  |-> clean_dataframe_raises(df, mapping),
      rows    |-> IF clean_dataframe_raises(df, mapping) THEN <<>>
                  ELSE RequiredFilter([r \in 1..Len(cleaned) |->
                          [cleaned[r] EXCEPT !.Arbitrator_Name = FillUnknown(@)]]) ]

clean_and_filter(df, mapping, source) ==
    normalize(df, mapping, source, CleanedRows(df, mapping, source))

\* _process_dataframe
process_dataframe(df, source) ==
    clean_and_filter(df, column_mapping(df.columns, source), source)

\* ------------------------------------------------------- Deduplicator
\* the columns of the combined table (self.standard_columns)
StandardColumns ==
    { "Case_ID", "Arbitrator_Name", "Respondent_Name", "Consumer_Attorney",
      "Respondent_Attorney", "Disposition_Type", "Date_Filed", "Date_Closed",
      "Award_Amount", "Claim_Amount", "Forum" }

\* records.notnull().sum(axis=1) for one row
completeness(row) == Cardinality({c \in StandardColumns : ~IsNull(row[c])})

\* Series.idxmax() over the rows of a group, in table order: the index label of
\* the first row that attains the greatest completeness
RECURSIVE IdxMaxFrom(_, _, _)
IdxMaxFrom(group, i, best) ==
    IF i > Len(group) THEN group[best].Index
    ELSE IF completeness(group[i]) > completeness(group[best])
         THEN IdxMaxFrom(group, i + 1, i)
         ELSE IdxMaxFrom(group, i + 1, best)

\* a variant of idxmax that returns the last row attaining the greatest completeness
RECURSIVE IdxMaxLastFrom(_, _, _)
IdxMaxLastFrom(group, i, best) ==
    IF i > Len(group) THEN group[best].Index
    ELSE IF completeness(group[i]) >= completeness(group[best])
         THEN IdxMaxLastFrom(group, i + 1, i)
         ELSE IdxMaxLastFrom(group, i + 1, best)

idxmax_last(group) == IdxMaxLastFrom(group, 2, 1)

idxmax(group) == IdxMaxFrom(group, 2, 1)

\* a variant of pass 1 that drops only the rows strictly less complete than the
\* most complete row of their group, so that rows tied for the maximum all stay
dedupe_by_case_id_keep_ties(df) ==
    LET group(row) == SelectSeq(df, LAMBDA o : o.Case_ID = row.Case_ID)
        keep(row)  == \A i \in 1..Len(group(row)) :
                          completeness(group(row)[i]) <= completeness(row)
    IN  SelectSeq(df, keep)

\* pass 1 (the Case_ID block).  process_files only passes rows that have a
\* Case_ID (_process_dataframe filters the others out), so no group is keyed by None.
\* Every Case_ID that occurs more than once is a group; its rows other than the
\* idxmax row are dropped.  Groups are disjoint, so the order of the loop over
\* duplicates['Case_ID'].unique() does not matter.
dedupe_by_case_id(df) ==
    LET group(row) == SelectSeq(df, LAMBDA o : o.Case_ID = row.Case_ID)
        keep(row)  == \/ IsNull(row.Case_ID)
                      \/ Len(group(row)) = 1
                      \/ row.Index = idxmax(group(row))
    IN  IF df = <<>> \/ (\A i \in 1..Len(df) : IsNull(df[i].Case_ID)) THEN df
        ELSE SelectSeq(df, keep)

\* the three key columns of pass 2
SameTriple(a, b) ==
    /\ a.Arbitrator_Name = b.Arbitrator_Name
    /\ a.Respondent_Name = b.Respondent_Name
    /\ a.Date_Filed = b.Date_Filed

\* groupby(...) leaves out every row with a None/NaT key component (dropna)
TriplePresent(row) ==
    /\ ~IsNull(row.Arbitrator_Name)
    /\ ~IsNull(row.Respondent_Name)
    /\ ~IsNull(row.Date_Filed)

\* a variant of pass 2 that also groups the rows with a None/NaT key component
\* (groupby(..., dropna=False))
dedupe_by_triple_keep_na(df) ==
    LET group(row) == SelectSeq(df, LAMBDA o : SameTriple(o, row))
        keep(row)  == Len(group(row)) = 1 \/ row.Index = idxmax(group(row))
    IN  SelectSeq(df, keep)

\* pass 2 (the Arbitrator_Name/Respondent_Name/Date_Filed block): the rows that
\* df.duplicated(keep=False) marks are grouped by the triple, and in each group
\* the rows other than the idxmax row are dropped
dedupe_by_triple(df) ==
    LET group(row) == SelectSeq(df, LAMBDA o : SameTriple(o, row))
        keep(row)  == \/ ~TriplePresent(row)
                      \/ Len(group(row)) = 1
                      \/ row.Index = idxmax(group(row))
    IN  SelectSeq(df, keep)

\* ----------------------------------------------------- final cleaning
\* DataFrame.reset_index(drop=True)
reset_index(df) == [i \in 1..Len(df) |-> [df[i] EXCEPT !.Index = i - 1]]

\* the fillna('Unknown') loop over the six text columns
FillTextColumns(row) ==
    [row EXCEPT !.Case_ID             = FillUnknown(@),
                !.Arbitrator_Name     = FillUnknown(@),
                !.Respondent_Name     = FillUnknown(@),
                !.Consumer_Attorney   = FillUnknown(@),
                !.Respondent_Attorney = FillUnknown(@),
                !.Disposition_Type    = FillUnknown(@)]

\* df['Arbitrator_Name'].str.strip() != '' for one row (.str.strip() of a value
\* that is no str is NaN, which differs from '')
ArbitratorNotBlank(row) ==
    ~IsStr(row.Arbitrator_Name) \/ Strip(row.Arbitrator_Name.s) # <<>>

\* a variant of _final_cleaning that keeps the rows with a blank Arbitrator_Name
final_cleaning_keep_blank(df) ==
    [i \in 1..Len(df) |-> FillTextColumns(reset_index(df)[i])]

\* _final_cleaning
final_cleaning(df) ==
    LET filled == [i \in 1..Len(df) |-> FillTextColumns(reset_index(df)[i])]
    IN  SelectSeq(filled, ArbitratorNotBlank)

\* ----------------------------------------- Outcome/Duration Enricher
\* Series.str.contains(pat, case=False, na=False) for one cell
CellContains(c, pat) == IsStr(c) /\ ContainsNoCase(pat, c.s)

\* Award_Amount > 0 and Award_Amount == 0 for one cell (both False on NaN)
AmountPositive(c) == ~IsNull(c) /\ c.m > 0

AmountZero(c) == ~IsNull(c) /\ c.m = 0

consumer_prevailed_mask(row) ==
    CellContains(row.Disposition_Type, <<"A","w","a","r","d">>) /\ AmountPositive(row.Award_Amount)

business_prevailed_mask(row) ==
    \/ CellContains(row.Disposition_Type, <<"D","i","s","m","i","s","s">>)
    \/ CellContains(row.Disposition_Type, <<"W","i","t","h","d","r","a","w","n">>)
    \/ CellContains(row.Disposition_Type, <<"A","w","a","r","d">>) /\ AmountZero(row.Award_Amount)

settlement_mask(row) == CellContains(row.Disposition_Type, <<"S","e","t","t","l","e">>)

\* a row with more columns
WithColumns(row, extra) ==
    [c \in DOMAIN row \cup DOMAIN extra |-> IF c \in DOMAIN extra THEN extra[c] ELSE row[c]]

\* a variant of _calculate_prevailed_flags without the final settlement reset
prevailed_flags_no_override(row) ==
    WithColumns(row, [Consumer_Prevailed |-> Bool(consumer_prevailed_mask(row)),
                      Business_Prevailed |-> Bool(business_prevailed_mask(row))])

\* _calculate_prevailed_flags for one row: both flags start False, the two masks
\* set them, and the settlement mask resets both last
prevailed_flags(row) ==
    LET consumer == consumer_prevailed_mask(row) /\ ~settlement_mask(row)
        business == business_prevailed_mask(row) /\ ~settlement_mask(row)
    IN  WithColumns(row, [Consumer_Prevailed |-> Bool(consumer),
                          Business_Prevailed |-> Bool(business)])

calculate_prevailed_flags(df) == [i \in 1..Len(df) |-> prevailed_flags(df[i])]

\* a variant that subtracts the dates the other way round
TimedeltaDaysReversed(filed, closed) == (filed - closed) \div 24

\* Timedelta.days of (closed - filed), both in hours: the floor of the quotient
TimedeltaDays(filed, closed) == (closed - filed) \div 24

\* _calculate_case_duration for one row
case_duration(row) ==
    WithColumns(row, [Case_Duration_Days |->
        IF ~IsNull(row.Date_Filed) /\ ~IsNull(row.Date_Closed)
        THEN Num(TimedeltaDays(row.Date_Filed.t, row.Date_Closed.t))
        ELSE Null])

calculate_case_duration(df) == [i \in 1..Len(df) |-> case_duration(df[i])]

\* ---------------------------------------------------- source inference
\* str(cell), as df.values.astype(str) yields it; only text can hold the letters
\* the inference looks for, so a timestamp is rendered by its number alone
CellText(c) ==
    IF IsNull(c) THEN <<"n","a","n">>
    ELSE IF c.k = "date" THEN IntToStr(c.t)
    ELSE ToStr(c)

\* the cells of the rows, row after row (ndarray.flatten())
RECURSIVE FlattenRows(_)
FlattenRows(rows) ==
    IF rows = <<>> THEN <<>>
    ELSE [j \in 1..Len(Head(rows)) |-> CellText(Head(rows)[j])] \o FlattenRows(Tail(rows))

\* (variant: the cell values looked at before the column names)
infer_source_values_first(df) ==
    IF ~df.readable THEN "AAA" ELSE
    LET columns_str == Lower(JoinWithSpace(df.columns))
        preview     == SubSeq(df.rows, 1, IF Len(df.rows) < 5 THEN Len(df.rows) ELSE 5)
        values_str  == Lower(JoinWithSpace(FlattenRows(preview)))
    IN  IF Contains(<<"a","a","a">>, values_str) \/ Contains(<<"a","m","e","r","i","c","a","n"," ","a","r","b","i","t","r","a","t","i","o","n">>, values_str)
          THEN "AAA"
        ELSE IF Contains(<<"j","a","m","s">>, values_str) THEN "JAMS"
        ELSE IF Contains(<<"a","a","a">>, columns_str) \/ Contains(<<"a","m","e","r","i","c","a","n"," ","a","r","b","i","t","r","a","t","i","o","n">>, columns_str)
          THEN "AAA"
        ELSE IF Contains(<<"j","a","m","s">>, columns_str) THEN "JAMS"
        ELSE "AAA"

\* _infer_source_from_content, on the first five rows of the file; when the
\* preview cannot be read the except branch answers 'AAA'
infer_source_from_content(df) ==
    IF ~df.readable THEN "AAA" ELSE
    LET columns_str == Lower(JoinWithSpace(df.columns))
        preview     == SubSeq(df.rows, 1, IF Len(df.rows) < 5 THEN Len(df.rows) ELSE 5)
        values_str  == Lower(JoinWithSpace(FlattenRows(preview)))
    IN  IF Contains(<<"a","a","a">>, columns_str) \/ Contains(<<"a","m","e","r","i","c","a","n"," ","a","r","b","i","t","r","a","t","i","o","n">>, columns_str)
          THEN "AAA"
        ELSE IF Contains(<<"j","a","m","s">>, columns_str) THEN "JAMS"
        ELSE IF Contains(<<"a","a","a">>, values_str) \/ Contains(<<"a","m","e","r","i","c","a","n"," ","a","r","b","i","t","r","a","t","i","o","n">>, values_str)
          THEN "AAA"
        ELSE IF Contains(<<"j","a","m","s">>, values_str) THEN "JAMS"
        ELSE "AAA"

\* process_files: the source of one file, from its base name, else its content
SourceOf(file) ==
    LET filename == Lower(file.name)
    IN  IF Contains(<<"a","a","a">>, filename) THEN "AAA"
        ELSE IF Contains(<<"j","a","m","s">>, filename) THEN "JAMS"
        ELSE infer_source_from_content(file)

\* pd.concat(frames, ignore_index=True)
RECURSIVE Flatten(_)
Flatten(frames) == IF frames = <<>> THEN <<>> ELSE Head(frames) \o Flatten(Tail(frames))

concat(frames) == reset_index(Flatten(frames))

\* ------------------------------------------- process_files: one file
\* The file at a path is [name, size, readable, columns, rows]: its base name, its
\* size in bytes, whether openpyxl can read it, and the table it holds.

\* is_large_file
is_large_file(file) == file.size > 10 * 1024 * 1024

\* chunk_size
chunk_size(file) == IF file.size < 50 * 1024 * 1024 THEN 5000 ELSE 1000

\* total_rows: sheet.max_row, the header row and the data rows
total_rows(file) == Len(file.rows) + 1

\* pd.read_excel(file_path, skiprows=range(1, offset + 1), nrows=chunk_size):
\* the header and the next nrows data rows after the first offset ones
read_chunk(file, offset, nrows) ==
    [ columns |-> file.columns,
      rows    |-> SubSeq(file.rows, offset + 1,
                         IF offset + nrows < Len(file.rows) THEN offset + nrows
                         ELSE Len(file.rows)) ]

\* offset > total_rows * 0.8, after a chunk has failed
too_many_chunk_errors(file, offset) == 5 * offset > 4 * total_rows(file)

\* the while loop over the chunks of a large file, from the given offset on:
\* whether it ends in "Too many chunk errors", and the chunk_dfs it leaves
RECURSIVE read_chunks(_, _, _, _)

\* the rest of one iteration, once the chunk has been read and processed
chunk_done(file, source, offset, chunk_dfs, chunk, processed) ==
    IF chunk.rows = <<>>
      THEN [aborted |-> FALSE, chunk_dfs |-> chunk_dfs]
    ELSE IF processed.raised
      THEN IF too_many_chunk_errors(file, offset + chunk_size(file))
             THEN [aborted |-> TRUE, chunk_dfs |-> chunk_dfs]
           ELSE read_chunks(file, source, offset + chunk_size(file), chunk_dfs)
    ELSE IF Len(chunk.rows) < chunk_size(file)
      THEN [aborted |-> FALSE, chunk_dfs |-> Append(chunk_dfs, processed.rows)]
    ELSE read_chunks(file, source, offset + Len(chunk.rows),
                     Append(chunk_dfs, processed.rows))

process_chunk(file, source, offset, chunk_dfs, chunk) ==
    chunk_done(file, source, offset, chunk_dfs, chunk, process_dataframe(chunk, source))

read_chunks(file, source, offset, chunk_dfs) ==
    process_chunk(file, source, offset, chunk_dfs,
                  read_chunk(file, offset, chunk_size(file)))

\* The same loop, one iteration at a time.  Its position is [state, offset,
\* chunk_dfs]: "reading" while the loop runs, "ended" after a break, "aborted"
\* after "Too many chunk errors"; "outside" when no loop is running.
outside_loop == [state |-> "outside", offset |-> 0, chunk_dfs |-> <<>>]

loop_start == [state |-> "reading", offset |-> 0, chunk_dfs |-> <<>>]

\* (variant: a chunk that fails leaves the offset where it is)
chunk_iteration_done_offset_kept(file, loop, chunk, processed) ==
    IF chunk.rows = <<>>
      THEN [loop EXCEPT !.state = "ended"]
    ELSE IF processed.raised
      THEN [loop EXCEPT !.state = IF too_many_chunk_errors(file, loop.offset)
                                    THEN "aborted" ELSE "reading"]
    ELSE [ state     |-> IF Len(chunk.rows) < chunk_size(file) THEN "ended" ELSE "reading",
           offset    |-> loop.offset + Len(chunk.rows),
           chunk_dfs |-> Append(loop.chunk_dfs, processed.rows) ]

\* the rest of one iteration, once the chunk has been read and processed
chunk_iteration_done(file, loop, chunk, processed) ==
    IF chunk.rows = <<>>
      THEN [loop EXCEPT !.state = "ended"]
    ELSE IF processed.raised
      THEN [ state     |-> IF too_many_chunk_errors(file, loop.offset + chunk_size(file))
                             THEN "aborted" ELSE "reading",
             offset    |-> loop.offset + chunk_size(file),
             chunk_dfs |-> loop.chunk_dfs ]
    ELSE [ state     |-> IF Len(chunk.rows) < chunk_size(file) THEN "ended" ELSE "reading",
           offset    |-> loop.offset + Len(chunk.rows),
           chunk_dfs |-> Append(loop.chunk_dfs, processed.rows) ]

chunk_iteration_on(file, source, loop, chunk) ==
    chunk_iteration_done(file, loop, chunk, process_dataframe(chunk, source))

\* one iteration of `while True:`
chunk_iteration(file, source, loop) ==
    chunk_iteration_on(file, source, loop, read_chunk(file, loop.offset, chunk_size(file)))

\* the large-file branch after its loop: the chunks are combined, or the file
\* fails ("Too many chunk errors", "No data could be processed from file chunks")
combine_chunks(file, source, chunks) ==
    [ mapping |-> column_mapping(file.columns, source),
      raised  |-> chunks.aborted \/ chunks.chunk_dfs = <<>>,
      rows    |-> IF chunks.aborted THEN <<>> ELSE concat(chunks.chunk_dfs) ]

\* no field is mapped: the file was never read
no_mapping == [f \in Range(FieldTypes) |-> Null]

\* the body of the try block for one file: what is mapped, whether an exception
\* reaches the except branch, and otherwise the processed_df that is appended
process_file(file, source) ==
    IF ~file.readable
      THEN [mapping |-> no_mapping, raised |-> TRUE, rows |-> <<>>]
    ELSE IF is_large_file(file)
      THEN combine_chunks(file, source, read_chunks(file, source, 0, <<>>))
    ELSE process_dataframe(file, source)

\* a variant of the except branch that also drops the files appended so far
skip_file_dropping_all(dfs) == <<>>

\* the except branch of the loop: the error is reported and the loop goes on
\* with all_dataframes as it is
skip_file(dfs) == dfs

\* ----------------------------------- process_files: the returned dataset
\* reading or normalizing the file raises, so that the except branch skips it
Fails(file) == process_file(file, SourceOf(file)).raised

\* the steps of process_files that follow pd.concat
Processed(df) ==
    calculate_case_duration(calculate_prevailed_flags(
        final_cleaning(dedupe_by_triple(dedupe_by_case_id(df)))))

\* the dataset process_files returns for files none of which fails
DatasetOf(files) ==
    IF files = <<>> THEN <<>>
    ELSE Processed(concat([k \in 1..Len(files) |->
                              process_file(files[k], SourceOf(files[k])).rows]))

\* ------------------------------------------ process_files: persistence
\* The store is outside the program: whether ArbitrationDatabase() connects, and
\* how each db.save_data call ends, are its choices.  A save_data call ends in
\*   "inserted"  success, none of the case ids was stored yet
\*   "updated"   success, all of the case ids were stored already
\*   "error"     an SQLAlchemyError, caught by save_data and returned as a result
\*   "raises"    any other exception, which leaves save_data
SaveOutcomes == {"inserted", "updated", "error", "raises"}

\* ArbitrationDatabase.save_data: the result it returns
save_data(data, outcome) ==
    IF outcome = "error"
      THEN [status |-> "error", message |-> "SQLAlchemyError"]
    ELSE [ status   |-> "success",
           inserted |-> IF outcome = "inserted" THEN Len(data) ELSE 0,
           updated  |-> IF outcome = "updated" THEN Len(data) ELSE 0,
           total    |-> Len(data) ]

\* db_result as process_files initializes it
not_saved == [status |-> "not_saved", message |-> "Data was not saved to database"]

\* db_result as the except branch around the persistence sets it
database_error == [status |-> "error", message |-> "Database error"]

rows_per_batch == 500

\* len(combined_df) > 1000
is_large_dataset(df) == Len(df) > 1000

\* (variant: each batch starts one row early)
batch_from_row_before(df, b) ==
    SubSeq(df, IF b = 1 THEN 1 ELSE (b - 1) * rows_per_batch,
           IF b * rows_per_batch < Len(df) THEN b * rows_per_batch ELSE Len(df))

\* combined_df.iloc[i:i+rows_per_batch] for the b-th value of
\* i in range(0, len(combined_df), rows_per_batch)
batch(df, b) ==
    SubSeq(df, (b - 1) * rows_per_batch + 1,
           IF b * rows_per_batch < Len(df) THEN b * rows_per_batch ELSE Len(df))

\* the number of values of range(0, len(combined_df), rows_per_batch)
batch_count(df) == (Len(df) + rows_per_batch - 1) \div rows_per_batch

\* the record-sets process_files hands to db.save_data, in order, when no call raises
save_inputs(df) ==
    IF is_large_dataset(df) THEN [b \in 1..batch_count(df) |-> batch(df, b)]
    ELSE << df >>

RECURSIVE SumSeq(_)
SumSeq(s) == IF s = <<>> THEN 0 ELSE Head(s) + SumSeq(Tail(s))

\* db_result after the batch loop: the counts of the batches whose status is
\* 'success', under the status 'success'
batch_summary(results) ==
    [ status   |-> "success",
      inserted |-> SumSeq([b \in 1..Len(results) |->
                      IF results[b].status = "success" THEN results[b].inserted ELSE 0]),
      updated  |-> SumSeq([b \in 1..Len(results) |->
                      IF results[b].status = "success" THEN results[b].updated ELSE 0]),
      message  |-> "Data saved to database in chunks" ]

\* the calls made on the store once it is connected, given how each would end:
\* all of them, or those up to the first one that raises
calls_made(inputs, outcomes) ==
    [c \in 1..(IF FirstTrue([b \in 1..Len(outcomes) |-> outcomes[b] = "raises"]) = 0
               THEN Len(inputs)
               ELSE FirstTrue([b \in 1..Len(outcomes) |-> outcomes[b] = "raises"])) |->
        [op |-> "save_data", data |-> inputs[c], outcome |-> outcomes[c]]]

\* db_result after the try block that follows a successful connection
saved_result(df, inputs, outcomes) ==
    IF \E b \in 1..Len(outcomes) : outcomes[b] = "raises" THEN database_error
    ELSE IF is_large_dataset(df)
      THEN batch_summary([b \in 1..Len(inputs) |-> save_data(inputs[b], outcomes[b])])
    ELSE save_data(inputs[1], outcomes[1])

\* ===================================================== query engine
\* ------------------------------------------------ regular expressions
\* The patterns of process_natural_language_query are sequences of
\*   Lit(s)     the text s
\*   Opt(s)     (s)? : the text s, or nothing when the rest does not match then
\*   Lazy       (.*?) : as few characters as the rest allows
\*   Alt(alts)  (a|b|..) : the first alternative with which the rest matches,
\*              an alternative being a text or End, the `$` of the pattern
\* Lazy and Alt are the groups that are read; their texts are collected in order.
Lit(s) == [t |-> "lit", s |-> s]

Opt(s) == [t |-> "opt", s |-> s]

Lazy == [t |-> "lazy"]

Alt(alts) == [t |-> "alt", alts |-> alts]

Txt(s) == [end |-> FALSE, s |-> s]

End == [end |-> TRUE, s |-> <<>>]

NoMatch == [ok |-> FALSE, groups |-> <<>>]

\* the backtracking of the matcher: the first way if it matches, else the second
OrElse(first, second) == IF first.ok THEN first ELSE second

\* s continues with the text lit at position i
StartsWithAt(s, i, lit) ==
    i + Len(lit) - 1 <= Len(s) /\ SubSeq(s, i, i + Len(lit) - 1) = lit

RECURSIVE Match(_, _, _, _, _)
RECURSIVE LazyMatch(_, _, _, _, _, _)
RECURSIVE AltMatch(_, _, _, _, _, _)

\* the elements k.. of pattern p matched against s from position i on, the
\* groups read so far being g
Match(p, k, s, i, g) ==
    IF k > Len(p) THEN [ok |-> TRUE, groups |-> g]
    ELSE CASE p[k].t = "lit" ->
                IF StartsWithAt(s, i, p[k].s)
                  THEN Match(p, k + 1, s, i + Len(p[k].s), g)
                ELSE NoMatch
           [] p[k].t = "opt" ->
                OrElse(IF StartsWithAt(s, i, p[k].s)
                         THEN Match(p, k + 1, s, i + Len(p[k].s), g)
                       ELSE NoMatch,
                       Match(p, k + 1, s, i, g))
           [] p[k].t = "lazy" -> LazyMatch(p, k, s, i, i, g)
           [] p[k].t = "alt" -> AltMatch(p, k, s, i, 1, g)

\* the group (.*?) started at i, tried with its end at j, j + 1, ...: the first
\* end with which the rest of the pattern matches
LazyMatch(p, k, s, i, j, g) ==
    LET ends == {e \in j..(Len(s) + 1) :
                    Match(p, k + 1, s, e, Append(g, SubSeq(s, i, e - 1))).ok}
        first == CHOOSE e \in ends : \A h \in ends : e <= h
    IN  IF ends = {} THEN NoMatch
        ELSE Match(p, k + 1, s, first, Append(g, SubSeq(s, i, first - 1)))

\* the alternatives a.. of the group p[k], tried in order
AltMatch(p, k, s, i, a, g) ==
    IF a > Len(p[k].alts) THEN NoMatch
    ELSE OrElse(IF p[k].alts[a].end
                  THEN IF i = Len(s) + 1 THEN Match(p, k + 1, s, i, Append(g, <<>>))
                       ELSE NoMatch
                ELSE IF StartsWithAt(s, i, p[k].alts[a].s)
                  THEN Match(p, k + 1, s, i + Len(p[k].alts[a].s),
                             Append(g, p[k].alts[a].s))
                ELSE NoMatch,
                AltMatch(p, k, s, i, a + 1, g))

\* the match that starts at the first position from i on at which the pattern
\* matches
SearchFrom(p, s, i) ==
    LET starts == {j \in i..(Len(s) + 1) : Match(p, 1, s, j, <<>>).ok}
    IN  IF starts = {} THEN NoMatch
        ELSE Match(p, 1, s, CHOOSE j \in starts : \A h \in starts : j <= h, <<>>)

\* re.search(p, s): the match that starts leftmost
re_search(p, s) == SearchFrom(p, s, 1)

\* r'how many arbitrations? has (arbitrator )?(.*?)(\?|$|had)'
arbitrator_case_count_pattern ==
    << Lit(<<"h","o","w"," ","m","a","n","y"," ","a","r","b","i","t","r","a","t","i","o","n">>), Opt(<<"s">>), Lit(<<" ","h","a","s"," ">>), Opt(<<"a","r","b","i","t","r","a","t","o","r"," ">>), Lazy,
       Alt(<< Txt(<<"?">>), End, Txt(<<"h","a","d">>) >>) >>

\* r'how many times has (arbitrator )?(.*?) ruled for the (complainant|consumer)'
arbitrator_rulings_pattern ==
    << Lit(<<"h","o","w"," ","m","a","n","y"," ","t","i","m","e","s"," ","h","a","s"," ">>), Opt(<<"a","r","b","i","t","r","a","t","o","r"," ">>), Lazy, Lit(<<" ","r","u","l","e","d"," ","f","o","r"," ","t","h","e"," ">>),
       Alt(<< Txt(<<"c","o","m","p","l","a","i","n","a","n","t">>), Txt(<<"c","o","n","s","u","m","e","r">>) >>) >>

\* r'what was the average award given by (arbitrator )?(.*?)(\?|$)'
avg_award_pattern ==
    << Lit(<<"w","h","a","t"," ","w","a","s"," ","t","h","e"," ","a","v","e","r","a","g","e"," ","a","w","a","r","d"," ","g","i","v","e","n"," ","b","y"," ">>), Opt(<<"a","r","b","i","t","r","a","t","o","r"," ">>), Lazy,
       Alt(<< Txt(<<"?">>), End >>) >>

\* r'list the names of all( the)? arbitrations? handled by (arbitrator )?(.*?)(\?|$|\.)'
list_cases_pattern ==
    << Lit(<<"l","i","s","t"," ","t","h","e"," ","n","a","m","e","s"," ","o","f"," ","a","l","l">>), Opt(<<" ","t","h","e">>), Lit(<<" ","a","r","b","i","t","r","a","t","i","o","n">>), Opt(<<"s">>),
       Lit(<<" ","h","a","n","d","l","e","d"," ","b","y"," ">>), Opt(<<"a","r","b","i","t","r","a","t","o","r"," ">>), Lazy, Alt(<< Txt(<<"?">>), End, Txt(<<".">>) >>) >>

\* r'how many times has (arbitrator )?(.*?) ruled for the consumer against (.*?)(\?|$|\.)'
specific_rulings_pattern ==
    << Lit(<<"h","o","w"," ","m","a","n","y"," ","t","i","m","e","s"," ","h","a","s"," ">>), Opt(<<"a","r","b","i","t","r","a","t","o","r"," ">>), Lazy,
       Lit(<<" ","r","u","l","e","d"," ","f","o","r"," ","t","h","e"," ","c","o","n","s","u","m","e","r"," ","a","g","a","i","n","s","t"," ">>), Lazy, Alt(<< Txt(<<"?">>), End, Txt(<<".">>) >>) >>

\* --------------------------------------------------- entity resolution
\* Series.str.contains(pat) on one value: pat is a regular expression, searched
\* in the value.  The names of a question reach it unescaped; they are made here
\* of letters, digits, spaces and '.', and '.' matches any character.
RegexMatchAt(pat, s, i) ==
    /\ i + Len(pat) - 1 <= Len(s)
    /\ \A j \in 1..Len(pat) : pat[j] = "." \/ pat[j] = s[i + j - 1]

str_contains(pat, s) == \E i \in 1..(Len(s) + 1) : RegexMatchAt(pat, s, i)

\* str.split(): the words between runs of whitespace
RECURSIVE Split(_)
RECURSIVE SplitWord(_, _)
SplitWord(s, word) ==
    IF s = <<>> \/ IsSpace(Head(s)) THEN << word >> \o Split(s)
    ELSE SplitWord(Tail(s), Append(word, Head(s)))

Split(s) ==
    IF LStrip(s) = <<>> THEN <<>> ELSE SplitWord(LStrip(s), <<>>)

\* the column of a dataset, as the texts of its cells
ColumnTexts(data, column) == [i \in 1..Len(data) |-> data[i][column].s]

\* `exact_match`: the rows whose name equals the queried name, letter case aside
exact_match(names, name) == [i \in 1..Len(names) |-> Lower(names[i]) = Lower(name)]

\* `matching_arbitrators`: the rows whose lower-cased name contains the pattern
partial_match(names, pat) == [i \in 1..Len(names) |-> str_contains(pat, Lower(names[i]))]

\* the loop over name_parts, from part k on: the first row matched by the first
\* part of more than 2 characters that matches any row, 0 when no part does
RECURSIVE flexible_match(_, _, _)
flexible_match(names, name_parts, k) ==
    IF k > Len(name_parts) THEN 0
    ELSE IF Len(name_parts[k]) > 2 /\ FirstTrue(partial_match(names, name_parts[k])) # 0
      THEN FirstTrue(partial_match(names, name_parts[k]))
    ELSE flexible_match(names, name_parts, k + 1)

\* (variant: the tier of the words left out)
resolve_without_words(names, name) ==
    IF FirstTrue(exact_match(names, name)) # 0
      THEN [tier |-> "exact", row |-> FirstTrue(exact_match(names, name))]
    ELSE [tier |-> "partial", row |-> FirstTrue(partial_match(names, Lower(name)))]

\* the three tiers every handler runs on a queried name: the tier that matched
\* and the row (.iloc[0] of the matching rows) whose name becomes actual_name;
\* row 0 when nothing matched
resolve(names, name) ==
    IF FirstTrue(exact_match(names, name)) # 0
      THEN [tier |-> "exact", row |-> FirstTrue(exact_match(names, name))]
    ELSE IF FirstTrue(partial_match(names, Lower(name))) # 0
      THEN [tier |-> "partial", row |-> FirstTrue(partial_match(names, Lower(name)))]
    ELSE [tier |-> "flexible", row |-> flexible_match(names, Split(Lower(name)), 1)]

\* the number of TRUE values of a mask (Series.sum())
CountTrue(mask) == Cardinality({i \in 1..Len(mask) : mask[i]})

\* data['Arbitrator_Name'] == actual_name, or the same for another column
equals_mask(names, actual_name) == [i \in 1..Len(names) |-> names[i] = actual_name]

\* f"I couldn't find any cases for an arbitrator matching '{arbitrator_name}' in the dataset."
arbitrator_not_found(arbitrator_name) ==
    <<"I"," ","c","o","u","l","d","n","'","t"," ","f","i","n","d"," ","a","n","y"," ","c","a","s","e","s"," ","f","o","r"," ","a","n"," ","a","r","b","i","t","r","a","t","o","r"," ","m","a","t","c","h","i","n","g"," ","'">> \o arbitrator_name
        \o <<"'"," ","i","n"," ","t","h","e"," ","d","a","t","a","s","e","t",".">>

\* f"I couldn't find any cases for a respondent matching '{respondent_name}' in the dataset."
respondent_not_found(respondent_name) ==
    <<"I"," ","c","o","u","l","d","n","'","t"," ","f","i","n","d"," ","a","n","y"," ","c","a","s","e","s"," ","f","o","r"," ","a"," ","r","e","s","p","o","n","d","e","n","t"," ","m","a","t","c","h","i","n","g"," ","'">> \o respondent_name
        \o <<"'"," ","i","n"," ","t","h","e"," ","d","a","t","a","s","e","t",".">>
\* ------------------------------------------------------------ handlers
\* str.rstrip(chars): the trailing characters that are in chars are removed
RECURSIVE RStripChars(_, _)
RStripChars(s, chars) ==
    IF s # <<>> /\ s[Len(s)] \in chars THEN RStripChars(SubSeq(s, 1, Len(s) - 1), chars)
    ELSE s

\* the rows of data selected by a mask
Masked(data, mask) == SelectSeq([i \in 1..Len(data) |-> [row |-> data[i], keep |-> mask[i]]],
                                LAMBDA r : r.keep)

\* arbitrator_data[arbitrator_data['Disposition_Type'] == 'Awarded'].shape[0]
awarded_cases(rows) ==
    Cardinality({i \in 1..Len(rows) : rows[i].row.Disposition_Type = Str(<<"A","w","a","r","d","e","d">>)})

\* the answer of _get_arbitrator_case_count once the name is resolved: the count
\* is that of the equality tier's mask when that tier matched, and otherwise the
\* number of rows whose name is exactly actual_name
case_count_answer(names, name, found) ==
    IF found.row = 0 THEN arbitrator_not_found(name)
    ELSE <<"A","r","b","i","t","r","a","t","o","r"," ">> \o names[found.row] \o <<" ","h","a","s"," ","h","a","n","d","l","e","d"," ">>
         \o IntToStr(IF found.tier = "exact" THEN CountTrue(exact_match(names, name))
                     ELSE CountTrue(equals_mask(names, names[found.row])))
         \o <<" ","a","r","b","i","t","r","a","t","i","o","n"," ","c","a","s","e","s"," ","i","n"," ","t","h","e"," ","d","a","t","a","s","e","t",".">>

\* arbitrator_name.strip().rstrip('had').strip()
case_count_name(arbitrator_name) ==
    Strip(RStripChars(Strip(arbitrator_name), {"h", "a", "d"}))

case_count_for(names, name) == case_count_answer(names, name, resolve(names, name))

\* _get_arbitrator_case_count
get_arbitrator_case_count(arbitrator_name, data) ==
    case_count_for(ColumnTexts(data, "Arbitrator_Name"), case_count_name(arbitrator_name))

\* the answer of _get_arbitrator_rulings for the rows of the resolved arbitrator
rulings_answer(actual_name, party, arbitrator_data) ==
    <<"A","r","b","i","t","r","a","t","o","r"," ">> \o actual_name \o <<" ","h","a","s"," ","r","u","l","e","d"," ","f","o","r"," ","t","h","e"," ">> \o party \o <<" ","i","n"," ">>
        \o IntToStr(awarded_cases(arbitrator_data)) \o <<" ","c","a","s","e","s"," ","o","u","t"," ","o","f"," ">>
        \o IntToStr(Len(arbitrator_data)) \o <<" ","t","o","t","a","l"," ","c","a","s","e","s",".">>

rulings_for(names, name, party, data, found) ==
    IF found.row = 0 THEN arbitrator_not_found(name)
    ELSE rulings_answer(names[found.row], party,
                        Masked(data, equals_mask(names, names[found.row])))

\* _get_arbitrator_rulings
get_arbitrator_rulings(arbitrator_name, party, data) ==
    rulings_for(ColumnTexts(data, "Arbitrator_Name"), Strip(arbitrator_name), party, data,
                resolve(ColumnTexts(data, "Arbitrator_Name"), Strip(arbitrator_name)))

\* 10^e
RECURSIVE Pow10(_)
Pow10(e) == IF e = 0 THEN 1 ELSE 10 * Pow10(e - 1)

\* the largest exponent of the amounts (floats m / 10^e) of a list
RECURSIVE MaxExponent(_)
MaxExponent(amounts) ==
    IF amounts = <<>> THEN 0
    ELSE IF Head(amounts).e > MaxExponent(Tail(amounts)) THEN Head(amounts).e
    ELSE MaxExponent(Tail(amounts))

\* num / den rounded to the nearest integer, a tie going to the even one
RoundHalfEven(num, den) ==
    IF 2 * (num % den) > den THEN (num \div den) + 1
    ELSE IF 2 * (num % den) = den THEN (num \div den) + ((num \div den) % 2)
    ELSE num \div den

\* the digits of n with a ',' before every group of three (format spec ',')
RECURSIVE Grouped(_)
Grouped(n) ==
    IF n < 1000 THEN IntToStr(n)
    ELSE Grouped(n \div 1000) \o <<",">>
         \o SubSeq(IntToStr(1000 + (n % 1000)), 2, 4)

\* f"{x:,.2f}" for x = num / den; x is rounded to cents as a rational, which is
\* what the float gives for the means of whole amounts over fewer than 8 rows
FormatMoney(num, den) ==
    (IF num < 0 THEN <<"-">> ELSE <<>>)
    \o Grouped(RoundHalfEven(IF num < 0 THEN -(100 * num) ELSE 100 * num, den) \div 100)
    \o <<".">>
    \o SubSeq(IntToStr(100 + (RoundHalfEven(IF num < 0 THEN -(100 * num) ELSE 100 * num, den) % 100)), 2, 3)

\* Series.mean() of the amounts that are present, formatted
mean_formatted(amounts, e) ==
    FormatMoney(SumSeq([i \in 1..Len(amounts) |-> amounts[i].m * Pow10(e - amounts[i].e)]),
                Len(amounts) * Pow10(e))

\* the answer of _get_arbitrator_avg_award for the rows of the resolved arbitrator
avg_award_answer(actual_name, amounts) ==
    IF amounts = <<>>
      THEN <<"A","w","a","r","d"," ","a","m","o","u","n","t"," ","d","a","t","a"," ","i","s"," ","n","o","t"," ","a","v","a","i","l","a","b","l","e"," ","f","o","r"," ","A","r","b","i","t","r","a","t","o","r"," ">> \o actual_name \o <<".">>
    ELSE <<"T","h","e"," ","a","v","e","r","a","g","e"," ","a","w","a","r","d"," ","g","i","v","e","n"," ","b","y"," ","A","r","b","i","t","r","a","t","o","r"," ">> \o actual_name \o <<" ","i","s"," ","$">>
         \o mean_formatted(amounts, MaxExponent(amounts)) \o <<".">>

avg_award_for(names, name, data, found) ==
    IF found.row = 0 THEN arbitrator_not_found(name)
    ELSE avg_award_answer(names[found.row],
            SelectSeq([i \in 1..Len(data) |->
                          IF names[i] = names[found.row] THEN data[i].Award_Amount ELSE Null],
                      LAMBDA c : ~IsNull(c)))

\* _get_arbitrator_avg_award
get_arbitrator_avg_award(arbitrator_name, data) ==
    avg_award_for(ColumnTexts(data, "Arbitrator_Name"), Strip(arbitrator_name), data,
                  resolve(ColumnTexts(data, "Arbitrator_Name"), Strip(arbitrator_name)))

\* "\n".join(case_info)
RECURSIVE case_list(_)
case_list(rows) ==
    IF rows = <<>> THEN <<>>
    ELSE (IF Len(rows) > 1 THEN case_list(SubSeq(rows, 1, Len(rows) - 1)) \o <<"\n">> ELSE <<>>)
         \o <<"-"," ","C","a","s","e"," ">> \o ToStr(rows[Len(rows)].row.Case_ID)
         \o (IF IsNull(rows[Len(rows)].row.Respondent_Name) THEN <<>>
             ELSE <<" ","a","g","a","i","n","s","t"," ">> \o ToStr(rows[Len(rows)].row.Respondent_Name))

\* the answer of _list_arbitrator_cases for the rows of the resolved arbitrator
list_cases_answer(actual_name, arbitrator_data) ==
    <<"A","r","b","i","t","r","a","t","o","r"," ">> \o actual_name \o <<" ","h","a","s"," ","h","a","n","d","l","e","d"," ","t","h","e"," ","f","o","l","l","o","w","i","n","g"," ">>
        \o IntToStr(Len(arbitrator_data)) \o <<" ","c","a","s","e","s",":">> \o <<"\n", "\n">>
        \o case_list(arbitrator_data)

list_cases_for(names, name, data, found) ==
    IF found.row = 0 THEN arbitrator_not_found(name)
    ELSE list_cases_answer(names[found.row],
                           Masked(data, equals_mask(names, names[found.row])))

\* _list_arbitrator_cases
list_arbitrator_cases(arbitrator_name, data) ==
    list_cases_for(ColumnTexts(data, "Arbitrator_Name"), Strip(arbitrator_name), data,
                   resolve(ColumnTexts(data, "Arbitrator_Name"), Strip(arbitrator_name)))

\* the answer of _get_specific_rulings for the rows of both resolved names
specific_rulings_answer(actual_arb_name, actual_resp_name, filtered_data) ==
    <<"A","r","b","i","t","r","a","t","o","r"," ">> \o actual_arb_name \o <<" ","h","a","s"," ","r","u","l","e","d"," ","f","o","r"," ","t","h","e"," ","c","o","n","s","u","m","e","r"," ","a","g","a","i","n","s","t"," ">>
        \o actual_resp_name \o <<" ","i","n"," ">> \o IntToStr(awarded_cases(filtered_data))
        \o <<" ","c","a","s","e","s"," ","o","u","t"," ","o","f"," ">> \o IntToStr(Len(filtered_data))
        \o <<" ","t","o","t","a","l"," ","c","a","s","e","s"," ","i","n","v","o","l","v","i","n","g"," ","b","o","t","h"," ","p","a","r","t","i","e","s",".">>

specific_rulings_for(arbs, arb_name, arb, resps, resp_name, resp, data) ==
    IF arb.row = 0 THEN arbitrator_not_found(arb_name)
    ELSE IF resp.row = 0 THEN respondent_not_found(resp_name)
    ELSE specific_rulings_answer(arbs[arb.row], resps[resp.row],
            Masked(data, [i \in 1..Len(data) |->
                             arbs[i] = arbs[arb.row] /\ resps[i] = resps[resp.row]]))

\* _get_specific_rulings
get_specific_rulings(arbitrator_name, respondent_name, data) ==
    specific_rulings_for(
        ColumnTexts(data, "Arbitrator_Name"), Strip(arbitrator_name),
        resolve(ColumnTexts(data, "Arbitrator_Name"), Strip(arbitrator_name)),
        ColumnTexts(data, "Respondent_Name"), Strip(respondent_name),
        resolve(ColumnTexts(data, "Respondent_Name"), Strip(respondent_name)),
        data)

\* the answer to a question that matches no pattern
not_understood ==
    <<"I","'","m"," ","s","o","r","r","y",","," ","I"," ","c","o","u","l","d","n","'","t"," ","u","n","d","e","r","s","t","a","n","d"," ","y","o","u","r"," ","q","u","e","r","y","."," ","P","l","e","a","s","e"," ","t","r","y"," ","r","e","p","h","r","a","s","i","n","g"," ","o","r"," ","u","s","e"," ","o","n","e"," ","o","f"," ","t","h","e"," ","s","a","m","p","l","e"," ","q","u","e","r","i","e","s"," ","b","e","l","o","w",".">>

\* the intent a lower-cased question is classified as: the first pattern, in the
\* order of the tests, that is found in it
intent(query_lower) ==
    IF re_search(arbitrator_case_count_pattern, query_lower).ok THEN "case_count"
    ELSE IF re_search(arbitrator_rulings_pattern, query_lower).ok THEN "rulings"
    ELSE IF re_search(avg_award_pattern, query_lower).ok THEN "avg_award"
    ELSE IF re_search(list_cases_pattern, query_lower).ok THEN "list_cases"
    ELSE IF re_search(specific_rulings_pattern, query_lower).ok THEN "specific_rulings"
    ELSE "none"

\* the handler call of each intent, on the groups of its match
answer_for(query_lower, which, data) ==
    CASE which = "case_count" ->
           get_arbitrator_case_count(
               Strip(re_search(arbitrator_case_count_pattern, query_lower).groups[1]), data)
      [] which = "rulings" ->
           get_arbitrator_rulings(
               Strip(re_search(arbitrator_rulings_pattern, query_lower).groups[1]),
               re_search(arbitrator_rulings_pattern, query_lower).groups[2], data)
      [] which = "avg_award" ->
           get_arbitrator_avg_award(
               Strip(re_search(avg_award_pattern, query_lower).groups[1]), data)
      [] which = "list_cases" ->
           list_arbitrator_cases(
               Strip(re_search(list_cases_pattern, query_lower).groups[1]), data)
      [] which = "specific_rulings" ->
           get_specific_rulings(
               Strip(re_search(specific_rulings_pattern, query_lower).groups[1]),
               Strip(re_search(specific_rulings_pattern, query_lower).groups[2]), data)
      [] OTHER -> not_understood

\* process_natural_language_query
process_natural_language_query(query, data) ==
    answer_for(Lower(query), intent(Lower(query)), data)

\* ---------------------------------------------------------- state
VARIABLES
    file_paths,      \* the input files, each [name, columns, rows]
    file_idx,        \* number of files the loop of process_files has handled
    all_dataframes,  \* the normalized table of every file that did not fail
    mapped,          \* per handled file, the column each canonical field was mapped from
    pass1_df,        \* _handle_duplicates: df after the Case_ID block
    combined_df,     \* process_files: combined_df
    db_result,       \* process_files: db_result
    db_calls,        \* the calls process_files has made on the store, in order
    pc,              \* position in process_files
    chunk_loop,      \* the while loop over the chunks of a large file: its position
    query,           \* the question last put to process_natural_language_query
    answer           \* the answer it returned

vars ==
    <<file_paths, file_idx, all_dataframes, mapped, pass1_df, combined_df,
      db_result, db_calls, pc, chunk_loop, query, answer>>

\* ------------------------------------------------------- process_files
\* one iteration of the loop over file_paths: the file is read and normalized
\* (in chunks when it is large) and appended, or, when that raises, reported and
\* skipped (the except branch)
ProcessFile ==
    /\ pc = "files"
    /\ file_idx < Len(file_paths)
    /\ LET file      == file_paths[file_idx + 1]
           processed == process_file(file, SourceOf(file))
       IN  /\ mapped' = Append(mapped, processed.mapping)
           /\ all_dataframes' =
                 IF processed.raised THEN skip_file(all_dataframes)
                 ELSE Append(all_dataframes, processed.rows)
    /\ file_idx' = file_idx + 1
    /\ UNCHANGED <<chunk_loop, query, answer, file_paths, pass1_df, combined_df, db_result, db_calls, pc>>

\* after the loop: pd.concat of the normalized tables, or, when there is none,
\* the empty DataFrame that is returned at once
Combine ==
    /\ pc = "files"
    /\ file_idx = Len(file_paths)
    /\ IF all_dataframes = <<>>
       THEN combined_df' = <<>> /\ pc' = "done"
       ELSE combined_df' = concat(all_dataframes) /\ pc' = "handle_duplicates"
    /\ UNCHANGED <<chunk_loop, query, answer, file_paths, file_idx, all_dataframes, mapped, pass1_df, db_result, db_calls>>

\* combined_df = self._handle_duplicates(combined_df)
HandleDuplicates ==
    /\ pc = "handle_duplicates"
    /\ pass1_df' = dedupe_by_case_id(combined_df)
    /\ combined_df' = dedupe_by_triple(pass1_df')
    /\ pc' = "final_cleaning"
    /\ UNCHANGED <<chunk_loop, query, answer, file_paths, file_idx, all_dataframes, mapped, db_result, db_calls>>

\* combined_df = self._final_cleaning(combined_df)
FinalCleaning ==
    /\ pc = "final_cleaning"
    /\ combined_df' = final_cleaning(combined_df)
    /\ pc' = "prevailed_flags"
    /\ UNCHANGED <<chunk_loop, query, answer, file_paths, file_idx, all_dataframes, mapped, pass1_df, db_result, db_calls>>

\* combined_df = self._calculate_prevailed_flags(combined_df)
CalculatePrevailedFlags ==
    /\ pc = "prevailed_flags"
    /\ combined_df' = calculate_prevailed_flags(combined_df)
    /\ pc' = "case_duration"
    /\ UNCHANGED <<chunk_loop, query, answer, file_paths, file_idx, all_dataframes, mapped, pass1_df, db_result, db_calls>>

\* combined_df = self._calculate_case_duration(combined_df)
CalculateCaseDuration ==
    /\ pc = "case_duration"
    /\ combined_df' = calculate_case_duration(combined_df)
    /\ pc' = "save"
    /\ UNCHANGED <<chunk_loop, query, answer, file_paths, file_idx, all_dataframes, mapped, pass1_df, db_result, db_calls>>

\* `if save_to_db:` up to `return combined_df, db_result`.  save_to_db is an
\* argument of process_files that nothing reads before this point, so its value
\* is drawn here: the dataset is not saved, or connecting raises, or the dataset
\* is saved, at once or in batches, each call ending as the store decides.
Save ==
    /\ pc = "save"
    /\ \/ /\ db_result' = db_result
          /\ db_calls' = <<>>
       \/ /\ db_result' = database_error
          /\ db_calls' = << [op |-> "connect", outcome |-> "raises"] >>
       \/ \E outcomes \in [1..Len(save_inputs(combined_df)) -> SaveOutcomes] :
             /\ db_result' = saved_result(combined_df, save_inputs(combined_df), outcomes)
             /\ db_calls' = << [op |-> "connect", outcome |-> "connected"] >>
                             \o calls_made(save_inputs(combined_df), outcomes)
    /\ pc' = "done"
    /\ UNCHANGED <<chunk_loop, query, answer, file_paths, file_idx, all_dataframes, mapped, pass1_df, combined_df>>

\* one iteration of the loop over the chunks of the large file at hand
ReadChunk ==
    /\ pc = "files"
    /\ file_idx < Len(file_paths)
    /\ chunk_loop.state = "reading"
    /\ chunk_loop' = chunk_iteration(file_paths[file_idx + 1], SourceOf(file_paths[file_idx + 1]),
                                     chunk_loop)
    /\ UNCHANGED <<query, answer, file_paths, file_idx, all_dataframes, mapped, pass1_df,
                   combined_df, db_result, db_calls, pc>>

\* what the file the loop has read becomes
chunks_combined(file, loop) ==
    combine_chunks(file, SourceOf(file),
                   [aborted |-> loop.state = "aborted", chunk_dfs |-> loop.chunk_dfs])

\* after the loop: the chunks are combined and appended, or the exception
\* reaches the except branch of the file, and the loop over the files goes on
EndChunks ==
    /\ pc = "files"
    /\ file_idx < Len(file_paths)
    /\ chunk_loop.state \in {"ended", "aborted"}
    /\ mapped' = Append(mapped, chunks_combined(file_paths[file_idx + 1], chunk_loop).mapping)
    /\ all_dataframes' =
          IF chunks_combined(file_paths[file_idx + 1], chunk_loop).raised
            THEN skip_file(all_dataframes)
          ELSE Append(all_dataframes, chunks_combined(file_paths[file_idx + 1], chunk_loop).rows)
    /\ file_idx' = file_idx + 1
    /\ chunk_loop' = outside_loop
    /\ UNCHANGED <<query, answer, file_paths, pass1_df, combined_df, db_result, db_calls, pc>>

\* the large-file branch of one file, its loop taken one iteration at a time
NextLoop ==
    \/ ReadChunk
    \/ EndChunks

Next ==
    \/ ProcessFile
    \/ Combine
    \/ HandleDuplicates
    \/ FinalCleaning
    \/ CalculatePrevailedFlags
    \/ CalculateCaseDuration
    \/ Save

\* the state process_files starts in, for a given list of files
Start(files) ==
    /\ file_paths = files
    /\ file_idx = 0
    /\ all_dataframes = <<>>
    /\ mapped = <<>>
    /\ pass1_df = <<>>
    /\ combined_df = <<>>
    /\ db_result = not_saved
    /\ db_calls = <<>>
    /\ pc = "files"
    /\ chunk_loop = outside_loop
    /\ query = Null
    /\ answer = Null

\* ------------------------------------------------------------ inputs
\* the header of an export that uses the first alias of every field
StandardHeader ==
    << <<"C","a","s","e"," ","I","D">>,
       <<"A","r","b","i","t","r","a","t","o","r"," ","N","a","m","e">>,
       <<"R","e","s","p","o","n","d","e","n","t"," ","N","a","m","e">>,
       <<"C","o","n","s","u","m","e","r"," ","A","t","t","o","r","n","e","y">>,
       <<"R","e","s","p","o","n","d","e","n","t"," ","A","t","t","o","r","n","e","y">>,
       <<"T","y","p","e"," ","o","f"," ","D","i","s","p","o","s","i","t","i","o","n">>,
       <<"D","a","t","e"," ","F","i","l","e","d">>,
       <<"D","a","t","e"," ","C","l","o","s","e","d">>,
       <<"A","w","a","r","d"," ","A","m","o","u","n","t">>,
       <<"C","l","a","i","m"," ","A","m","o","u","n","t">> >>

\* the size of a file that is read at once
SmallFileBytes == 64 * 1024

\* a readable file with the given header and rows
Workbook(name, columns, rows) ==
    [ name |-> name, size |-> SmallFileBytes, readable |-> TRUE,
      columns |-> columns, rows |-> rows ]

\* a file with the standard header; its rows give the cells in header order
File(name, rows) == Workbook(name, StandardHeader, rows)

AaaFileName == <<"a","a","a",".","x","l","s","x">>

JamsFileName == <<"j","a","m","s",".","x","l","s","x">>

\* all sequences over S of length at most n
SeqsUpTo(S, n) == UNION {[1..k -> S] : k \in 0..n}

\* two files that hold the given rows: the first half in one, the rest in the other
TwoFiles(rows) ==
    << File(AaaFileName, SubSeq(rows, 1, Len(rows) \div 2)),
       File(JamsFileName, SubSeq(rows, (Len(rows) \div 2) + 1, Len(rows))) >>

\* -- inputs that exercise the Deduplicator: two case ids, one arbitrator, and
\* rows that differ in which of respondent, filing date and attorney they have
MaxDedupRows == 3

DedupRows ==
    { << Str(case), Str(<<"X">>), key[1], key[3], Null, Str(<<"S","e","t","t","l","e","d">>),
         key[2], Null, Null, Null >> :
        case \in {<<"A">>, <<"B">>},
        key \in { <<Str(<<"R">>), Timestamp(2020, 1, 1, 0), Null>>,
                  <<Str(<<"R">>), Timestamp(2020, 1, 1, 0), Str(<<"L">>)>>,
                  <<Null, Timestamp(2020, 1, 1, 0), Str(<<"L">>)>>,
                  <<Str(<<"R">>), Null, Str(<<"L">>)>> } }

InitDedup == \E rows \in SeqsUpTo(DedupRows, MaxDedupRows) : Start(TwoFiles(rows))

SpecDedup == InitDedup /\ [][Next]_vars

\* a single file with the standard header
OneFile(name, rows) == << File(name, rows) >>

\* the rows with case ids "1", "2", ... put in their first cell
Numbered(rows) == [i \in 1..Len(rows) |-> [rows[i] EXCEPT ![1] = Str(IntToStr(i))]]

\* -- inputs that exercise the outcome flags: raw disposition texts (one for each
\* branch of the standardizer, two that fall through its tests) and award amounts
MaxOutcomeRows == 2

RawDispositions ==
    { Str(<<"A","w","a","r","d">>), Str(<<"D","i","s","m","i","s","s","e","d">>), Str(<<"W","i","t","h","d","r","a","w","n">>), Str(<<"S","e","t","t","l","e","d">>),
      Str(<<"s","e","t","t","l","e"," ","d","i","s","m","i","s","s">>), Str(<<"d","i","s","m","i","s","s"," ","a","w","a","r","d">>), Null }

OutcomeRows ==
    { << Null, Str(<<"X">>), Null, Null, Null, disp, Null, Null, award, Null >> :
        disp \in RawDispositions, award \in {Null, Num(0), Num(5)} }

InitOutcome ==
    \E rows \in SeqsUpTo(OutcomeRows, MaxOutcomeRows) :
        Start(OneFile(AaaFileName, Numbered(rows)))

SpecOutcome == InitOutcome /\ [][Next]_vars

\* -- inputs that exercise the case duration: filing and closing dates in either
\* order, with and without a time of day, absent, or no date at all
MaxDurationRows == 2

FiledCells ==
    { Null, Timestamp(2020, 1, 1, 0), Timestamp(2020, 3, 1, 0), Timestamp(2020, 3, 1, 18) }

ClosedCells == FiledCells \cup { Str(<<"n","/","a">>) }

DurationRows ==
    { << Null, Str(<<"X">>), Null, Null, Null, Str(<<"S","e","t","t","l","e","d">>), filed, closed, Null, Null >> :
        filed \in FiledCells, closed \in ClosedCells }

InitDuration ==
    \E rows \in SeqsUpTo(DurationRows, MaxDurationRows) :
        Start(OneFile(JamsFileName, Numbered(rows)))

SpecDuration == InitDuration /\ [][Next]_vars

\* -- inputs that exercise the amounts: numbers of either sign and amount texts,
\* in the award or in the claim column
MaxAmountRows == 2

AmountCells ==
    { Null, Num(-5), Num(0), Num(5),
      Str(<<"$","5">>), Str(<<"-","5">>), Str(<<"5","-","3">>), Str(<<"N","/","A">>), Str(<<"1",".","5">>) }

AmountRows ==
    { << Null, Str(<<"X">>), Null, Null, Null, Str(<<"A","w","a","r","d","e","d">>), Null, Null, award, Null >> :
        award \in AmountCells }
    \cup
    { << Null, Str(<<"X">>), Null, Null, Null, Str(<<"A","w","a","r","d","e","d">>), Null, Null, Null, claim >> :
        claim \in AmountCells }

InitAmount ==
    \E rows \in SeqsUpTo(AmountRows, MaxAmountRows) :
        Start(OneFile(AaaFileName, Numbered(rows)))

SpecAmount == InitAmount /\ [][Next]_vars

\* -- inputs that exercise the required fields: case id and arbitrator name
\* present, absent, or made of white space
MaxNameRows == 2

NameRows ==
    { << case, arb, Null, Null, Null, Str(<<"S","e","t","t","l","e","d">>), Null, Null, Null, Null >> :
        case \in {Null, Str(<<"A">>), Str(<<"B">>)},
        arb \in {Null, Str(<<" ">>), Str(<<"X">>), Str(<<" ","X">>)} }

InitNames ==
    \E rows \in SeqsUpTo(NameRows, MaxNameRows) : Start(OneFile(JamsFileName, rows))

SpecNames == InitNames /\ [][Next]_vars

\* -- inputs that exercise the Schema Mapper: headers made of aliases, aliases in
\* another case, and fragments that only the substring rule matches
MaxCols == 2

ColumnPool ==
    { <<"C","a","s","e"," ","I","D">>, <<"C","a","s","e"," ","N","u","m","b","e","r">>,
      <<"c","a","s","e"," ","i","d">>, <<"I","D">>, <<"C","a","s","e">>, <<"N","a","m","e">>,
      <<"A","r","b","i","t","r","a","t","o","r">>, <<"A","w","a","r","d">> }

\* the headers of at most n distinct columns
Headers(n) ==
    { h \in SeqsUpTo(ColumnPool, n) : \A i, j \in 1..Len(h) : i # j => h[i] # h[j] }

\* one row whose cell in column j is the text of the number j
TaggedRow(n) == [j \in 1..n |-> Str(IntToStr(j))]

InitMap ==
    \E name \in {AaaFileName, JamsFileName}, h \in Headers(MaxCols) :
        Start(<< Workbook(name, h, << TaggedRow(Len(h)) >>) >>)

SpecMap == InitMap /\ [][Next]_vars

\* -- inputs that exercise the disposition standardizer: texts made of one or two
\* of its keywords, in either order, and texts without any
MaxDispositionRows == 1

DispositionKeywords ==
    { <<"s","e","t","t","l","e","d">>, <<"s","e","t","t","l","e","m","e","n","t">>, <<"d","i","s","m","i","s","s","e","d">>, <<"d","i","s","m","i","s","s","a","l">>, <<"m","e","r","i","t">>, <<"w","i","t","h","d","r","a","w","n">>,
      <<"a","w","a","r","d">>, <<"a","d","m","i","n">> }

DispositionTexts ==
    DispositionKeywords
    \cup { a \o <<" ">> \o b : a, b \in DispositionKeywords }
    \cup { <<"C","a","s","e"," ","D","i","s","m","i","s","s","e","d"," ","o","n"," ","t","h","e"," ","M","e","r","i","t","s">>, <<"c","a","s","e"," ","d","i","s","m","i","s","s","e","d"," ","o","n"," ","t","h","e"," ","m","e","r","i","t","s">>,
           <<"O","t","h","e","r">>, <<"o","T","H","E","R"," ","x">> }

DispositionRows ==
    { << Null, Str(<<"X">>), Null, Null, Null, Str(text), Null, Null, Null, Null >> :
        text \in DispositionTexts }

InitDisposition ==
    \E rows \in SeqsUpTo(DispositionRows, MaxDispositionRows) :
        Start(OneFile(AaaFileName, Numbered(rows)))

SpecDisposition == InitDisposition /\ [][Next]_vars

\* -- inputs that exercise the file loop: files that normalize (two of them hold
\* the same case), a file without rows, a file whose disposition column is blank
\* (normalizing it raises) and a file that cannot be read
MaxFiles == 3

UnreadableFile ==
    [ name |-> <<"n","o","t","e","s",".","x","l","s","x">>, size |-> SmallFileBytes, readable |-> FALSE,
      columns |-> <<>>, rows |-> <<>> ]

FilePool ==
    { File(AaaFileName, << << Str(<<"A">>), Str(<<"X">>), Null, Null, Null, Str(<<"S","e","t","t","l","e","d">>), Null, Null, Null, Null >> >>),
      File(JamsFileName, << << Str(<<"A">>), Str(<<"X">>), Str(<<"R">>), Null, Null, Str(<<"A","w","a","r","d","e","d">>), Null, Null, Num(5), Null >> >>),
      File(JamsFileName, << << Str(<<"B">>), Str(<<"Y">>), Null, Null, Null, Str(<<"D","i","s","m","i","s","s","e","d">>), Null, Null, Null, Null >> >>),
      File(AaaFileName, <<>>),
      File(AaaFileName, << << Str(<<"C">>), Str(<<"X">>), Null, Null, Null, Null, Null, Null, Null, Null >> >>),
      UnreadableFile }

InitFiles == \E files \in SeqsUpTo(FilePool, MaxFiles) : Start(files)

SpecFiles == InitFiles /\ [][Next]_vars

\* -- inputs that exercise the persistence: one file of 1000 records, which are
\* saved at once, or of a few more, which are saved in batches
MaxExtraRows == 3

\* n rows with the case ids "1" .. "n"
NumberedRows(n) ==
    [i \in 1..n |->
        << Str(IntToStr(i)), Str(<<"X">>), Null, Null, Null, Str(<<"S","e","t","t","l","e","d">>), Null, Null, Null, Null >>]

InitBatch ==
    \E extra \in 0..MaxExtraRows : Start(OneFile(AaaFileName, NumberedRows(1000 + extra)))

SpecBatch == InitBatch /\ [][Next]_vars

\* -- inputs that exercise the chunked reading: one large file, either with a few
\* rows (a single short chunk) or made of full chunks of 1000 rows; the rows of a
\* chunk either normalize or all have a blank disposition, which makes
\* _clean_dataframe raise on that chunk
MaxChunkRows == 2

MaxChunks == 2

\* the size of a file that is read in chunks of 5000 rows
LargeFileBytes == 20 * 1024 * 1024

\* the size of a file that is read in chunks of 1000 rows
HugeFileBytes == 60 * 1024 * 1024

LargeFile(size, rows) ==
    [ name |-> AaaFileName, size |-> size, readable |-> TRUE,
      columns |-> StandardHeader, rows |-> rows ]

ChunkRowKinds ==
    { << Null, Str(<<"X">>), Null, Null, Null, Str(<<"S","e","t","t","l","e","d">>), Null, Null, Null, Null >>,
      << Null, Str(<<"Y">>), Null, Null, Null, Str(<<"A","w","a","r","d","e","d">>), Null, Null, Num(5), Null >>,
      << Null, Str(<<"X">>), Null, Null, Null, Null, Null, Null, Null, Null >> }

\* the rows of a file of full chunks; chunk b normalizes or fails as kinds[b] tells
ChunkedRows(kinds) ==
    [i \in 1..(1000 * Len(kinds)) |->
        << Str(IntToStr(i)), Str(<<"X">>), Null, Null, Null,
           IF kinds[((i - 1) \div 1000) + 1] = "ok" THEN Str(<<"S","e","t","t","l","e","d">>) ELSE Null,
           Null, Null, Null, Null >>]

InitChunks ==
    \/ \E size \in {LargeFileBytes, HugeFileBytes},
          rows \in SeqsUpTo(ChunkRowKinds, MaxChunkRows) :
          Start(<< LargeFile(size, Numbered(rows)) >>)
    \/ \E kinds \in [1..MaxChunks -> {"ok", "fails"}] :
          Start(<< LargeFile(HugeFileBytes, ChunkedRows(kinds)) >>)

SpecChunks == InitChunks /\ [][Next]_vars

\* -- inputs that exercise the query engine: datasets of a few cases, whose
\* arbitrators share a family name, differ in letter case or have nothing in
\* common, and questions of every intent about names that are found by equality,
\* as a substring, by one of their words, or not at all
MaxQueryRows == 2

QueryArbitrators ==
    { <<"A","l"," ","S","m","i","t","h">>, <<"B","o"," ","S","m","i","t","h">>, <<"A","L"," ","S","M","I","T","H">>,
      <<"J","o"," ","L","e","e">>, <<"J","O"," ","L","E","E">> }

QueryRows ==
    { << Null, Str(arb), Str(case[1]), Null, Null, Str(case[2]), Null, Null, case[3], Null >> :
        arb \in QueryArbitrators,
        case \in { << <<"A","c","m","e">>, <<"A","w","a","r","d","e","d">>, Num(5) >>, << <<"A","c","m","e">>, <<"D","i","s","m","i","s","s","e","d">>, Null >>,
                   << <<"B","o","l","t"," ","C","o">>, <<"A","w","a","r","d","e","d">>, Num(10) >> } }

\* the names the case-count questions ask about
QueryNames ==
    { <<"A","l"," ","S","m","i","t","h">>, <<"s","m","i","t","h">>, <<"A","."," ","S","m","i","t","h">>, <<"Z","e","d"," ","L","e","e">>, <<"J","o"," ","X","i">>, <<"L","e","e"," ","S","m","i","t","h">>, <<"N","o","b","o","d","y">>,
      <<"J","o"," ","L","e","e">>, <<"n","o","a","h">>, <<"J","o","h","n"," ","S","m","i","t","h">> }

\* the case-count question about a name
CaseCountQuestion(name) ==
    <<"H","o","w"," ","m","a","n","y"," ","a","r","b","i","t","r","a","t","i","o","n","s"," ","h","a","s"," ","A","r","b","i","t","r","a","t","o","r"," ">> \o name \o <<" ","h","a","d","?">>

Questions ==
    { CaseCountQuestion(name) : name \in QueryNames }
    \cup
    { <<"H","o","w"," ","m","a","n","y"," ","t","i","m","e","s"," ","h","a","s"," ">> \o name \o <<" ","r","u","l","e","d"," ","f","o","r"," ","t","h","e"," ","c","o","n","s","u","m","e","r"," ","a","g","a","i","n","s","t"," ">> \o resp \o <<"?">> :
        name \in { <<"A","l"," ","S","m","i","t","h">>, <<"s","m","i","t","h">>, <<"N","o","b","o","d","y">> }, resp \in { <<"a","c","m","e">>, <<"B","o","l","t">> } }
    \cup
    { <<"H","o","w"," ","m","a","n","y"," ","t","i","m","e","s"," ","h","a","s"," ","A","r","b","i","t","r","a","t","o","r"," ","B","o"," ","S","m","i","t","h"," ","r","u","l","e","d"," ","f","o","r"," ","t","h","e"," ","c","o","m","p","l","a","i","n","a","n","t","?">>,
      <<"H","o","w"," ","m","a","n","y"," ","t","i","m","e","s"," ","h","a","s"," ","j","o"," ","r","u","l","e","d"," ","f","o","r"," ","t","h","e"," ","c","o","n","s","u","m","e","r">>,
      <<"W","h","a","t"," ","w","a","s"," ","t","h","e"," ","a","v","e","r","a","g","e"," ","a","w","a","r","d"," ","g","i","v","e","n"," ","b","y"," ","A","l"," ","S","m","i","t","h","?">>,
      <<"W","h","a","t"," ","w","a","s"," ","t","h","e"," ","a","v","e","r","a","g","e"," ","a","w","a","r","d"," ","g","i","v","e","n"," ","b","y"," ","a","r","b","i","t","r","a","t","o","r"," ","l","e","e">>,
      <<"L","i","s","t"," ","t","h","e"," ","n","a","m","e","s"," ","o","f"," ","a","l","l"," ","t","h","e"," ","a","r","b","i","t","r","a","t","i","o","n","s"," ","h","a","n","d","l","e","d"," ","b","y"," ","B","o"," ","S","m","i","t","h",".">>,
      <<"l","i","s","t"," ","t","h","e"," ","n","a","m","e","s"," ","o","f"," ","a","l","l"," ","a","r","b","i","t","r","a","t","i","o","n"," ","h","a","n","d","l","e","d"," ","b","y"," ","a","r","b","i","t","r","a","t","o","r"," ","s","m","i","t","h">>,
      <<"W","h","o"," ","i","s"," ","A","l"," ","S","m","i","t","h","?">> }

\* one call process_natural_language_query(query, data), data being the dataset
\* that process_files has returned
Ask ==
    /\ pc = "done"
    /\ IsNull(query)
    /\ \E q \in Questions :
          /\ query' = Str(q)
          /\ answer' = Str(process_natural_language_query(q, combined_df))
    /\ UNCHANGED <<file_paths, file_idx, all_dataframes, mapped, pass1_df, combined_df,
                   db_result, db_calls, pc, chunk_loop>>

\* the state in which process_files(files, save_to_db=False) has returned
Returned(files) ==
    /\ file_paths = files
    /\ file_idx = Len(files)
    /\ all_dataframes =
          [k \in 1..Len(SelectSeq(files, LAMBDA file : ~Fails(file))) |->
              process_file(SelectSeq(files, LAMBDA file : ~Fails(file))[k],
                           SourceOf(SelectSeq(files, LAMBDA file : ~Fails(file))[k])).rows]
    /\ mapped = [k \in 1..Len(files) |-> process_file(files[k], SourceOf(files[k])).mapping]
    /\ pass1_df = IF all_dataframes = <<>> THEN <<>>
                  ELSE dedupe_by_case_id(concat(all_dataframes))
    /\ combined_df = DatasetOf(SelectSeq(files, LAMBDA file : ~Fails(file)))
    /\ db_result = not_saved
    /\ db_calls = <<>>
    /\ pc = "done"
    /\ chunk_loop = outside_loop
    /\ query = Null
    /\ answer = Null

\* (datasets of at least one case: every column then holds texts)
InitQuery ==
    \E rows \in SeqsUpTo(QueryRows, MaxQueryRows) :
        rows # <<>> /\ Returned(OneFile(AaaFileName, Numbered(rows)))

\* the questions put, one after the other, about a dataset that has been returned
SpecQuery == InitQuery /\ [][Ask]_vars

Init ==
    \/ InitDedup \/ InitOutcome \/ InitDuration \/ InitAmount \/ InitNames \/ InitMap
    \/ InitDisposition \/ InitFiles \/ InitBatch \/ InitChunks

Spec == Init /\ [][Next]_vars

\* ===================================================== Deduplicator claims
\* the table _handle_duplicates is given: the concatenation of the normalized files
DedupInput == concat(all_dataframes)

\* process_files has run _handle_duplicates (on a table; not the no-data return)
Deduplicated ==
    /\ all_dataframes # <<>>
    /\ pc \in {"final_cleaning", "prevailed_flags", "case_duration", "save", "done"}

RowsOf(df) == {df[i] : i \in 1..Len(df)}

\* the row with this index label is still in the table
Survives(row, df) == \E i \in 1..Len(df) : df[i].Index = row.Index

\* s is the most complete row of the group G, the earliest one among equals
MostCompleteFirst(s, G) ==
    \A o \in G \ {s} :
        \/ completeness(o) < completeness(s)
        \/ completeness(o) = completeness(s) /\ o.Index > s.Index

\* of the group G exactly one row is left in df, and it is the most complete, first one
OneBestSurvivor(G, df) ==
    /\ Cardinality({s \in G : Survives(s, df)}) = 1
    /\ \A s \in G : Survives(s, df) => MostCompleteFirst(s, G) /\ s \in RowsOf(df)

\* C1: after deduplication, and so in the dataset process_files returns, no two
\* rows have the same case_id (every row that reaches the Deduplicator has one)
C1_UniqueCaseIds ==
    Deduplicated =>
        \A i, j \in 1..Len(combined_df) :
            i # j => combined_df[i].Case_ID # combined_df[j].Case_ID

\* the input held a case_id twice and the returned dataset still has two rows
C1_Witness ==
    /\ pc = "done"
    /\ Len(combined_df) = 2
    /\ \E i, j \in 1..Len(DedupInput) :
          i # j /\ DedupInput[i].Case_ID = DedupInput[j].Case_ID

C3_RemovedOnlyBySharedCaseId ==
    pc = "final_cleaning" =>
        \A r \in RowsOf(DedupInput) :
            ~Survives(r, combined_df) =>
                \E o \in RowsOf(DedupInput) : o.Index # r.Index /\ o.Case_ID = r.Case_ID

\* C3, amended: a row is removed only when another input row has the same case_id
\* or the same arbitrator/respondent/date_filed triple with all three present; the
\* triple is a merge key for every row, with or without a case_id, so of two rows
\* with equal, fully present triples only one survives whatever their case_ids
C3_RemovedBySharedCaseIdOrTriple ==
    pc = "final_cleaning" =>
        /\ \A r \in RowsOf(DedupInput) :
              ~Survives(r, combined_df) =>
                  \E o \in RowsOf(DedupInput) :
                      /\ o.Index # r.Index
                      /\ \/ o.Case_ID = r.Case_ID
                         \/ /\ ~IsNull(r.Respondent_Name) /\ ~IsNull(r.Date_Filed)
                            /\ o.Arbitrator_Name = r.Arbitrator_Name
                            /\ o.Respondent_Name = r.Respondent_Name
                            /\ o.Date_Filed = r.Date_Filed
        /\ \A r, o \in RowsOf(combined_df) :
              /\ r.Index # o.Index
              /\ ~IsNull(r.Respondent_Name) /\ ~IsNull(r.Date_Filed)
              => ~(/\ o.Arbitrator_Name = r.Arbitrator_Name
                   /\ o.Respondent_Name = r.Respondent_Name
                   /\ o.Date_Filed = r.Date_Filed)

\* a row whose case_id no other input row has was removed, by the triple
C3_Witness ==
    /\ pc = "final_cleaning"
    /\ \E r \in RowsOf(DedupInput) :
          /\ ~Survives(r, combined_df)
          /\ \A o \in RowsOf(DedupInput) : o.Index # r.Index => o.Case_ID # r.Case_ID

\* ===================================================== Enricher claims
\* process_files has added the two outcome flags to a combined table
Flagged == all_dataframes # <<>> /\ pc \in {"case_duration", "save", "done"}

\* process_files has added the case duration to a combined table
Timed == all_dataframes # <<>> /\ pc \in {"save", "done"}

\* the rows of the input files, file after file
RECURSIVE InputRowsFrom(_)
InputRowsFrom(k) ==
    IF k > Len(file_paths) THEN {}
    ELSE Range(file_paths[k].rows) \cup InputRowsFrom(k + 1)

InputRows == InputRowsFrom(1)

\* the disposition text contains pat, whatever the case of the letters
Has(row, pat) ==
    /\ row.Disposition_Type.k = "str"
    /\ \E i \in 1..Len(row.Disposition_Type.s) :
          /\ i + Len(pat) - 1 <= Len(row.Disposition_Type.s)
          /\ \A j \in 1..Len(pat) :
                LowerChar(row.Disposition_Type.s[i + j - 1]) = LowerChar(pat[j])

AwardPositive(row) == row.Award_Amount.k = "float" /\ row.Award_Amount.m > 0

AwardZero(row) == row.Award_Amount.k = "float" /\ row.Award_Amount.m = 0

\* C4: in the dataset process_files returns no row has both consumer_prevailed and
\* business_prevailed true, whatever the raw disposition text and award amount
C4_NeverBothPrevailed ==
    Flagged =>
        \A i \in 1..Len(combined_df) :
            ~(combined_df[i].Consumer_Prevailed.b /\ combined_df[i].Business_Prevailed.b)

\* a raw text holding both "dismiss" and "award", with a positive award, was
\* returned as a consumer win only, next to a row returned as a business win
C4_Witness ==
    /\ pc = "done"
    /\ \E r \in InputRows :
          /\ r[6] = Str(<<"d","i","s","m","i","s","s"," ","a","w","a","r","d">>)
          /\ r[9] = Num(5)
          /\ \E i \in 1..Len(combined_df) :
                /\ combined_df[i].Case_ID = r[1]
                /\ combined_df[i].Consumer_Prevailed.b
                /\ ~combined_df[i].Business_Prevailed.b
    /\ \E j \in 1..Len(combined_df) : combined_df[j].Business_Prevailed.b

\* C5, as claimed: consumer_prevailed is true exactly when the disposition contains
\* "award" and the award is positive, business_prevailed exactly when it contains
\* "dismiss" or "withdrawn", or "award" with an award of zero, and both are false
\* whenever it contains "settle"
C5_FlagsExactlyByRules ==
    Flagged =>
        \A i \in 1..Len(combined_df) :
            LET row == combined_df[i]
            IN  /\ row.Consumer_Prevailed.b <=> (Has(row, <<"a","w","a","r","d">>) /\ AwardPositive(row))
                /\ row.Business_Prevailed.b <=>
                      \/ Has(row, <<"d","i","s","m","i","s","s">>)
                      \/ Has(row, <<"w","i","t","h","d","r","a","w","n">>)
                      \/ Has(row, <<"a","w","a","r","d">>) /\ AwardZero(row)
                /\ Has(row, <<"s","e","t","t","l","e">>) =>
                      ~row.Consumer_Prevailed.b /\ ~row.Business_Prevailed.b

\* C5, amended: the two rules decide the flags only for a disposition that does
\* not contain "settle"; one that does has both flags false, whatever else it
\* contains and whatever the award; an absent award is neither positive nor zero
C5_FlagsByRulesUnlessSettled ==
    Flagged =>
        \A i \in 1..Len(combined_df) :
            LET row == combined_df[i]
            IN  /\ row.Consumer_Prevailed.b <=>
                      /\ ~Has(row, <<"s","e","t","t","l","e">>)
                      /\ Has(row, <<"a","w","a","r","d">>) /\ AwardPositive(row)
                /\ row.Business_Prevailed.b <=>
                      /\ ~Has(row, <<"s","e","t","t","l","e">>)
                      /\ \/ Has(row, <<"d","i","s","m","i","s","s">>)
                         \/ Has(row, <<"w","i","t","h","d","r","a","w","n">>)
                         \/ Has(row, <<"a","w","a","r","d">>) /\ AwardZero(row)

\* a disposition containing both "settle" and "dismiss" got neither flag
C5_Witness ==
    /\ pc = "done"
    /\ \E i \in 1..Len(combined_df) :
          /\ Has(combined_df[i], <<"s","e","t","t","l","e">>)
          /\ Has(combined_df[i], <<"d","i","s","m","i","s","s">>)
          /\ ~combined_df[i].Business_Prevailed.b
          /\ ~combined_df[i].Consumer_Prevailed.b

\* C6: case_duration_days is the whole number of days from date_filed to
\* date_closed when both are present and absent otherwise; 2020-01-01 to
\* 2020-03-01 gives 60
C6_DurationIsWholeDays ==
    Timed =>
        \A i \in 1..Len(combined_df) :
            LET row == combined_df[i]
            IN  /\ IF row.Date_Filed.k = "date" /\ row.Date_Closed.k = "date"
                   THEN /\ row.Case_Duration_Days.k = "num"
                        /\ row.Case_Duration_Days.n * 24 <= row.Date_Closed.t - row.Date_Filed.t
                        /\ row.Date_Closed.t - row.Date_Filed.t < (row.Case_Duration_Days.n + 1) * 24
                   ELSE row.Case_Duration_Days = Null
                /\ /\ row.Date_Filed = Timestamp(2020, 1, 1, 0)
                   /\ row.Date_Closed = Timestamp(2020, 3, 1, 0)
                   => row.Case_Duration_Days = Num(60)

\* one returned row has the duration 60, another has no closing date and no duration
C6_Witness ==
    /\ pc = "done"
    /\ \E i, j \in 1..Len(combined_df) :
          /\ combined_df[i].Case_Duration_Days = Num(60)
          /\ combined_df[j].Date_Filed.k = "date"
          /\ combined_df[j].Date_Closed = Null
          /\ combined_df[j].Case_Duration_Days = Null

\* C7: in the dataset process_files returns, case_duration_days is non-negative
\* whenever it is present, also when date_closed is earlier than date_filed
C7_DurationNonNegative ==
    Timed =>
        \A i \in 1..Len(combined_df) :
            \/ combined_df[i].Case_Duration_Days = Null
            \/ combined_df[i].Case_Duration_Days.n >= 0

\* C8: in the dataset process_files returns, claim_amount and award_amount are each
\* absent or at least 0, whatever the raw amount cell
C8_AmountsNonNegative ==
    pc = "done" =>
        \A i \in 1..Len(combined_df) :
            /\ combined_df[i].Award_Amount = Null \/ combined_df[i].Award_Amount.m >= 0
            /\ combined_df[i].Claim_Amount = Null \/ combined_df[i].Claim_Amount.m >= 0

\* ===================================================== Normalizer claims
\* the rows the normalizer returned, over all files
RECURSIVE NormalizedRowsFrom(_)
NormalizedRowsFrom(k) ==
    IF k > Len(all_dataframes) THEN {}
    ELSE Range(all_dataframes[k]) \cup NormalizedRowsFrom(k + 1)

NormalizedRows == NormalizedRowsFrom(1)

\* process_files has run _final_cleaning on a combined table
Cleaned ==
    /\ all_dataframes # <<>>
    /\ pc \in {"prevailed_flags", "case_duration", "save", "done"}

\* a text cell with a character that is not white space
NotBlank(c) == c.k = "str" /\ \E i \in 1..Len(c.s) : c.s[i] \notin {" ", "\t"}

\* C9, as claimed: every row the normalizer returns and every row process_files
\* returns has a non-null case_id and a non-null, non-blank arbitrator_name
C9_RequiredFieldsNonBlank ==
    /\ \A row \in NormalizedRows :
          row.Case_ID # Null /\ row.Arbitrator_Name # Null /\ NotBlank(row.Arbitrator_Name)
    /\ Cleaned =>
          \A i \in 1..Len(combined_df) :
              /\ combined_df[i].Case_ID # Null
              /\ combined_df[i].Arbitrator_Name # Null
              /\ NotBlank(combined_df[i].Arbitrator_Name)

\* C9, amended: every row the normalizer returns has a non-null case_id and a
\* non-null arbitrator_name, which may be blank; the normalizer keeps exactly the
\* input rows that have a case_id, an absent arbitrator becoming "Unknown"; every
\* row process_files returns has, besides, an arbitrator_name that is not blank
C9_RequiredFields ==
    /\ \A row \in NormalizedRows : row.Case_ID # Null /\ row.Arbitrator_Name # Null
    /\ Len(all_dataframes) = 1 =>
          \A i \in 1..Len(file_paths[1].rows) :
              LET r   == file_paths[1].rows[i]
                  out == {row \in Range(all_dataframes[1]) : row.Index = i - 1}
              IN  /\ r[1] = Null => out = {}
                  /\ r[1] # Null => Cardinality(out) = 1
                  /\ r[2] = Null => \A row \in out : row.Arbitrator_Name = Str(<<"U","n","k","n","o","w","n">>)
    /\ Cleaned =>
          \A i \in 1..Len(combined_df) :
              /\ combined_df[i].Case_ID # Null
              /\ NotBlank(combined_df[i].Arbitrator_Name)

\* the normalizer returned a row with a blank arbitrator_name and one whose absent
\* arbitrator became "Unknown"; only the second is in the returned dataset
C9_Witness ==
    /\ pc = "done"
    /\ \E row \in NormalizedRows : row.Arbitrator_Name = Str(<<>>)
    /\ \E i \in 1..Len(file_paths[1].rows) :
          /\ file_paths[1].rows[i][2] = Null
          /\ \E row \in NormalizedRows :
                row.Index = i - 1 /\ row.Arbitrator_Name = Str(<<"U","n","k","n","o","w","n">>)
    /\ Len(combined_df) = 1
    /\ combined_df[1].Arbitrator_Name = Str(<<"U","n","k","n","o","w","n">>)

\* ===================================================== Schema Mapper claims
\* C10: for every field the Schema Mapper takes the column of the first rule that
\* matches any column: (1) an alias equal to a column name, the earliest such
\* alias of the list wherever the column stands; (2) an alias equal to a column
\* name up to case; (3) an alias and a column one of which contains the other;
\* (4) a column equal up to case to the canonical name; with no match the field
\* is absent and its column of the normalized output is null
C10_RuleOrder ==
    \A k \in 1..file_idx : \A f \in Range(FieldTypes) :
        LET columns == file_paths[k].columns
            names   == field_mappings(SourceOf(file_paths[k]))[f]
            m       == mapped[k][f]
            Exact(i)      == \E j \in 1..Len(columns) : columns[j] = names[i]
            NoCase(i, j)  == Lower(columns[j]) = Lower(names[i])
            Partial(i, j) == PartialMatch(names[i], columns[j])
            Direct(j)     == Upper(columns[j]) = Upper(standard_col[f])
            \* (i, j) is the first pair, aliases before columns, that R relates
            First(R(_, _), i, j) ==
                /\ R(i, j)
                /\ \A j2 \in 1..(j - 1) : ~R(i, j2)
                /\ \A i2 \in 1..(i - 1) : \A j2 \in 1..Len(columns) : ~R(i2, j2)
        IN  IF \E i \in 1..Len(names) : Exact(i)
              THEN \E i \in 1..Len(names) :
                      /\ Exact(i)
                      /\ \A i2 \in 1..(i - 1) : ~Exact(i2)
                      /\ m = Str(names[i])
            ELSE IF \E i \in 1..Len(names) : \E j \in 1..Len(columns) : NoCase(i, j)
              THEN \E i \in 1..Len(names) : \E j \in 1..Len(columns) :
                      First(NoCase, i, j) /\ m = Str(columns[j])
            ELSE IF \E i \in 1..Len(names) : \E j \in 1..Len(columns) : Partial(i, j)
              THEN \E i \in 1..Len(names) : \E j \in 1..Len(columns) :
                      First(Partial, i, j) /\ m = Str(columns[j])
            ELSE IF \E j \in 1..Len(columns) : Direct(j)
              THEN \E j \in 1..Len(columns) :
                      /\ Direct(j)
                      /\ \A j2 \in 1..(j - 1) : ~Direct(j2)
                      /\ m = Str(columns[j])
            ELSE /\ m = Null
                 /\ Len(all_dataframes) = file_idx =>
                       \A row \in Range(all_dataframes[k]) :
                           /\ f = "respondent_name" => row.Respondent_Name = Null
                           /\ f = "consumer_attorney" => row.Consumer_Attorney = Null
                           /\ f = "respondent_attorney" => row.Respondent_Attorney = Null
                           /\ f = "disposition_type" => row.Disposition_Type = Null
                           /\ f = "date_filed" => row.Date_Filed = Null
                           /\ f = "date_closed" => row.Date_Closed = Null
                           /\ f = "award_amount" => row.Award_Amount = Null
                           /\ f = "claim_amount" => row.Claim_Amount = Null

\* a header in which the first alias of case_id appears in another case, before a
\* column that is exactly the second alias: the exact match is taken, a field
\* without any match is absent, and the row is normalized
C10_Witness ==
    /\ file_idx = 1
    /\ file_paths[1].columns = << <<"c","a","s","e"," ","i","d">>, <<"C","a","s","e"," ","N","u","m","b","e","r">> >>
    /\ mapped[1].case_id = Str(<<"C","a","s","e"," ","N","u","m","b","e","r">>)
    /\ mapped[1].award_amount = Null
    /\ all_dataframes # <<>> /\ all_dataframes[1] # <<>>

\* C11: the substring rule relates an alias and a column name only when the
\* shorter of the two has at least 4 characters: a column taken for a field by
\* neither an alias equal to it up to case nor the canonical name is contained in,
\* or contains, an alias of the field, both of length >= 4 (so "ID" is not taken
\* through "Case ID")
C11_SubstringNeedsFourChars ==
    \A k \in 1..file_idx : \A f \in Range(FieldTypes) :
        LET names == field_mappings(SourceOf(file_paths[k]))[f]
            m     == mapped[k][f]
        IN  /\ m # Null
            /\ \A i \in 1..Len(names) : Lower(names[i]) # Lower(m.s)
            /\ Upper(m.s) # Upper(standard_col[f])
            => \E i \in 1..Len(names) :
                  /\ \/ Contains(Lower(names[i]), Lower(m.s))
                     \/ Contains(Lower(m.s), Lower(names[i]))
                  /\ Len(names[i]) >= 4
                  /\ Len(m.s) >= 4

\* ===================================================== Standardizer claims
\* the text contains pat, whatever the case of the letters
TextHas(s, pat) ==
    \E i \in 1..Len(s) :
        /\ i + Len(pat) - 1 <= Len(s)
        /\ \A j \in 1..Len(pat) : LowerChar(s[i + j - 1]) = LowerChar(pat[j])

\* the pairs (raw disposition text, normalized disposition) of the first file
StandardizedPairs ==
    IF all_dataframes = <<>> THEN {}
    ELSE { << file_paths[1].rows[row.Index + 1][6].s, row.Disposition_Type >> :
             row \in Range(all_dataframes[1]) }

\* C12: the standardizer gives a text the result of the first rule that applies,
\* in the order settled/settlement, dismissed with merit, dismissed/dismissal,
\* withdrawn, award, admin; "Case Dismissed on the Merits" gives
\* "Dismissed on the Merits"
C12_FirstRuleWins ==
    \A p \in StandardizedPairs :
        LET x == p[1]
        IN  /\ IF TextHas(x, <<"s","e","t","t","l","e","d">>) \/ TextHas(x, <<"s","e","t","t","l","e","m","e","n","t">>)
                 THEN p[2] = Str(<<"S","e","t","t","l","e","d">>)
               ELSE IF TextHas(x, <<"d","i","s","m","i","s","s","e","d">>) /\ TextHas(x, <<"m","e","r","i","t">>)
                 THEN p[2] = Str(<<"D","i","s","m","i","s","s","e","d"," ","o","n"," ","t","h","e"," ","M","e","r","i","t","s">>)
               ELSE IF TextHas(x, <<"d","i","s","m","i","s","s","e","d">>) \/ TextHas(x, <<"d","i","s","m","i","s","s","a","l">>)
                 THEN p[2] = Str(<<"D","i","s","m","i","s","s","e","d">>)
               ELSE IF TextHas(x, <<"w","i","t","h","d","r","a","w","n">>)
                 THEN p[2] = Str(<<"W","i","t","h","d","r","a","w","n">>)
               ELSE IF TextHas(x, <<"a","w","a","r","d">>)
                 THEN p[2] = Str(<<"A","w","a","r","d","e","d">>)
               ELSE IF TextHas(x, <<"a","d","m","i","n">>)
                 THEN p[2] = Str(<<"A","d","m","i","n","i","s","t","r","a","t","i","v","e">>)
               ELSE TRUE
            /\ x = <<"C","a","s","e"," ","D","i","s","m","i","s","s","e","d"," ","o","n"," ","t","h","e"," ","M","e","r","i","t","s">> => p[2] = Str(<<"D","i","s","m","i","s","s","e","d"," ","o","n"," ","t","h","e"," ","M","e","r","i","t","s">>)

\* texts with the keywords of two rules were standardized: one with 'dismissed'
\* and 'merit', and one with 'award' before 'withdrawn'
C12_Witness ==
    \/ << <<"C","a","s","e"," ","D","i","s","m","i","s","s","e","d"," ","o","n"," ","t","h","e"," ","M","e","r","i","t","s">>, Str(<<"D","i","s","m","i","s","s","e","d"," ","o","n"," ","t","h","e"," ","M","e","r","i","t","s">>) >> \in StandardizedPairs
    \/ << <<"a","w","a","r","d"," ","w","i","t","h","d","r","a","w","n">>, Str(<<"W","i","t","h","d","r","a","w","n">>) >> \in StandardizedPairs

FileFails(k) == Fails(file_paths[k])

\* the list of files without those that fail
FilesThatDoNotFail == SelectSeq(file_paths, LAMBDA file : ~Fails(file))

\* C14: a file that fails to be read or normalized is skipped: the loop handles
\* every file of the list, and the dataset that is returned is the one
\* process_files returns for the list without the files that fail
C14_FailedFileIsSkipped ==
    pc = "done" =>
        /\ file_idx = Len(file_paths)
        /\ Len(mapped) = Len(file_paths)
        /\ combined_df = DatasetOf(FilesThatDoNotFail)

\* a file failed, a later one did not, and its records are in the returned dataset
C14_Witness ==
    /\ pc = "done"
    /\ \E k, l \in 1..Len(file_paths) : k < l /\ FileFails(k) /\ ~FileFails(l)
    /\ combined_df # <<>>

\* C15: when every file of the list fails (an empty list included), the status
\* process_files returns identifies an error
C15_NoDataIsAnError ==
    (pc = "done" /\ \A k \in 1..Len(file_paths) : FileFails(k)) =>
        db_result.status = "error"

\* connecting to the store raised, or a save_data call returned an error result
\* or raised
PersistenceFailed ==
    \E c \in 1..Len(db_calls) : db_calls[c].outcome \in {"raises", "error"}

\* a save_data call on a batch returned an error result
BatchReturnedError ==
    /\ is_large_dataset(combined_df)
    /\ \E c \in 1..Len(db_calls) :
          db_calls[c].op = "save_data" /\ db_calls[c].outcome = "error"

\* C16: the persistence step leaves the dataset as it is, whatever the store
\* does, so that the dataset returned is the one returned without saving; and a
\* failure of the store shows in the returned summary as status "error"
C16_PersistenceOnlyInSummary ==
    [][pc = "save" =>
          /\ combined_df' = combined_df
          /\ pc' = "done"
          /\ PersistenceFailed' => db_result'.status = "error"]_vars

\* the part of C16 about the dataset alone: no outcome of the persistence
\* changes the dataset that is returned
C16_DatasetUnchangedBySave == [][pc = "save" => combined_df' = combined_df /\ pc' = "done"]_vars

\* C17: when the dataset is saved in batches and the save of a batch returns an
\* error result, the summary does not report status "success"
C17_BatchFailureIsReported ==
    (pc = "done" /\ BatchReturnedError) => db_result.status # "success"

\* the number of chunks a large file is read in when no chunk fails
ChunkCount(file) == (Len(file.rows) + chunk_size(file) - 1) \div chunk_size(file)

\* the chunks of a large file whose processing raises
FailedChunks(file) ==
    { b \in 1..ChunkCount(file) :
        process_dataframe(read_chunk(file, (b - 1) * chunk_size(file), chunk_size(file)),
                          SourceOf(file)).raised }

\* C18: a large file in which a single chunk fails, and the others succeed, is
\* not aborted, wherever that chunk lies: its records are appended
C18_SingleFailedChunkNeverAborts ==
    \A k \in 1..file_idx :
        ( /\ is_large_file(file_paths[k])
          /\ ChunkCount(file_paths[k]) > 1
          /\ Cardinality(FailedChunks(file_paths[k])) = 1 )
        => ~FileFails(k)

\* a chunk failed, the loop went on with the next one, and the file was kept
C18_ChunkSkipped ==
    /\ file_idx = 1
    /\ is_large_file(file_paths[1])
    /\ FailedChunks(file_paths[1]) = {1}
    /\ Len(all_dataframes) = 1
    /\ Len(all_dataframes[1]) = 1000

\* -- inputs that exercise the source inference: file names with and without the
\* two source names, headers with one more column, and cells that name a source
MaxSourceRows == 2

SourceFileNames == { <<"A","A","A","_","2","0","2","0",".","x","l","s","x">>, <<"m","y","_","J","a","m","s",".","x","l","s","x">>, <<"j","a","m","s"," ","o","r"," ","a","a","a",".","x","l","s","x">>, <<"c","a","s","e","s",".","x","l","s","x">> }

SourceHeaders ==
    { StandardHeader, StandardHeader \o << <<"J","A","M","S"," ","R","e","f">> >>, StandardHeader \o << <<"A","a","a"," ","N","u","m","b","e","r">> >>,
      StandardHeader \o << <<"A","m","e","r","i","c","a","n"," ","A","r","b","i","t","r","a","t","i","o","n"," ","A","s","s","o","c","i","a","t","i","o","n">> >> }

\* a row whose respondent and attorneys are the given texts
SourceRow(respondent, consumer_attorney, respondent_attorney) ==
    << Null, Str(<<"X">>), Str(respondent), Str(consumer_attorney), Str(respondent_attorney),
       Str(<<"S","e","t","t","l","e","d">>), Null, Null, Null, Null >>

SourceRowKinds ==
    { SourceRow(<<"A","c","m","e">>, <<"A","n","n">>, <<"B","o","b">>), SourceRow(<<"J","a","m","s"," ","L","t","d">>, <<"A","n","n">>, <<"B","o","b">>),
      SourceRow(<<"A","A","A"," ","C","o","r","p">>, <<"A","n","n">>, <<"B","o","b">>), SourceRow(<<"A","c","m","e">>, <<"A","m","e","r","i","c","a","n">>, <<"A","r","b","i","t","r","a","t","i","o","n">>) }

\* five rows that name no source and a sixth that does
DeepRows == [i \in 1..6 |-> IF i < 6 THEN SourceRow(<<"A","c","m","e">>, <<"A","n","n">>, <<"B","o","b">>)
                            ELSE SourceRow(<<"J","a","m","s"," ","L","t","d">>, <<"A","n","n">>, <<"B","o","b">>)]

\* the rows under a header: one empty cell for each column the rows do not have
Padded(columns, rows) ==
    [i \in 1..Len(rows) |-> rows[i] \o [j \in 1..(Len(columns) - Len(rows[i])) |-> Null]]

InitSource ==
    \/ \E name \in SourceFileNames, columns \in SourceHeaders,
          rows \in SeqsUpTo(SourceRowKinds, MaxSourceRows) \cup {DeepRows} :
            Start(<< Workbook(name, columns, Padded(columns, Numbered(rows))) >>)
    \/ Start(<< UnreadableFile >>)

SpecSource == InitSource /\ [][Next]_vars

\* ---- a dataset with seven cases of one arbitrator, and cases of others around them
MaxOtherRows == 1

JohnLSmithEsq == <<"J","o","h","n"," ","L","."," ","S","m","i","t","h"," ","E","s","q",".">>

ArbitratorRow(arb) == << Null, Str(arb), Str(<<"A","c","m","e">>), Null, Null, Str(<<"S","e","t","t","l","e","d">>), Null, Null, Null, Null >>

SevenRows == [i \in 1..7 |-> ArbitratorRow(JohnLSmithEsq)]

OtherRows == { ArbitratorRow(<<"J","o","h","n"," ","D","o","e">>), ArbitratorRow(<<"J","o","h","n"," ","S","m","i","t","h">>) }

InitSeven ==
    \E before \in SeqsUpTo(OtherRows, MaxOtherRows), after \in SeqsUpTo(OtherRows, MaxOtherRows) :
        Returned(OneFile(AaaFileName, Numbered(before \o SevenRows \o after)))

SpecSeven == InitSeven /\ [][Ask]_vars

\* -- inputs that exercise the loop over the chunks one iteration at a time: files
\* of up to MaxLoopChunks full chunks of 1000 rows, each of which normalizes or
\* fails, followed or not by one more row
MaxLoopChunks == 2

LoopTails ==
    { <<>>,
      << << Str(<<"t">>), Str(<<"X">>), Null, Null, Null, Str(<<"S","e","t","t","l","e","d">>), Null, Null, Null, Null >> >>,
      << << Str(<<"t">>), Str(<<"X">>), Null, Null, Null, Null, Null, Null, Null, Null >> >> }

LoopFiles ==
    { LargeFile(size, ChunkedRows(kinds) \o tail) :
        size \in {LargeFileBytes, HugeFileBytes},
        kinds \in UNION {[1..n -> {"ok", "fails"}] : n \in 0..MaxLoopChunks},
        tail \in LoopTails }

\* process_files has come to the `while True:` of its only file
InitLoop ==
    \E file \in LoopFiles :
        /\ file_paths = << file >>
        /\ file_idx = 0
        /\ all_dataframes = <<>>
        /\ mapped = <<>>
        /\ pass1_df = <<>>
        /\ combined_df = <<>>
        /\ db_result = not_saved
        /\ db_calls = <<>>
        /\ pc = "files"
        /\ chunk_loop = loop_start
        /\ query = Null
        /\ answer = Null

\* the loop runs on: weak fairness of NextLoop, in which ENABLED <<NextLoop>>_vars
\* is written as the state predicate it equals (an iteration can be made, and
\* changes the position of the loop, exactly while the loop has not been left)
LoopRunsOn == []<>(chunk_loop.state = "outside") \/ []<><<NextLoop>>_vars

SpecLoop == InitLoop /\ [][NextLoop]_vars /\ LoopRunsOn

\* ===================================================== Query Matcher claims
\* a question has been put and answered
Asked == ~IsNull(query)

\* the question, lower-cased as process_natural_language_query reads it
QueryLower == Lower(query.s)

\* the groups of the two-entity pattern in the question
SpecificGroups == re_search(specific_rulings_pattern, QueryLower).groups

\* C19: a question of the form "How many times has [Arbitrator] X ruled for the
\* consumer against Y?" is answered with the result of _get_specific_rulings for
\* X and Y
C19_TwoEntityIntent ==
    (Asked /\ re_search(specific_rulings_pattern, QueryLower).ok) =>
        answer.s = get_specific_rulings(Strip(SpecificGroups[1]), Strip(SpecificGroups[2]),
                                        combined_df)

\* the names of a column, and the tiers of C20 with plain substring tests
TierExact(names, name) == FirstTrue([i \in 1..Len(names) |-> Lower(names[i]) = Lower(name)])

TierSubstring(names, text) ==
    FirstTrue([i \in 1..Len(names) |-> Contains(Lower(text), Lower(names[i]))])

RECURSIVE TierWords(_, _, _)
TierWords(names, words, k) ==
    IF k > Len(words) THEN 0
    ELSE IF Len(words[k]) > 2 /\ TierSubstring(names, words[k]) # 0
      THEN TierSubstring(names, words[k])
    ELSE TierWords(names, words, k + 1)

\* the row whose name is the resolved identity according to C20, 0 for none
TierResolved(names, name) ==
    IF TierExact(names, name) # 0 THEN TierExact(names, name)
    ELSE IF TierSubstring(names, name) # 0 THEN TierSubstring(names, name)
    ELSE TierWords(names, Split(Lower(name)), 1)

Arbitrators == ColumnTexts(combined_df, "Arbitrator_Name")

Respondents == ColumnTexts(combined_df, "Respondent_Name")

\* the name the case-count handler looks for, for the question that was put
CaseCountName ==
    case_count_name(Strip(re_search(arbitrator_case_count_pattern, QueryLower).groups[1]))

\* the answer to the case-count question names the identity C20 resolves
CaseCountResolvedByTiers ==
    IF TierResolved(Arbitrators, CaseCountName) = 0
      THEN answer.s = arbitrator_not_found(CaseCountName)
    ELSE StartsWithAt(answer.s, 1,
            <<"A","r","b","i","t","r","a","t","o","r"," ">> \o Arbitrators[TierResolved(Arbitrators, CaseCountName)]
            \o <<" ","h","a","s"," ","h","a","n","d","l","e","d"," ">>)

\* the answer of _get_specific_rulings names the two identities C20 resolves
SpecificResolvedByTiers(arb, resp) ==
    IF TierResolved(Arbitrators, arb) = 0
      THEN get_specific_rulings(arb, resp, combined_df) = arbitrator_not_found(arb)
    ELSE IF TierResolved(Respondents, resp) = 0
      THEN get_specific_rulings(arb, resp, combined_df) = respondent_not_found(resp)
    ELSE StartsWithAt(get_specific_rulings(arb, resp, combined_df), 1,
            <<"A","r","b","i","t","r","a","t","o","r"," ">> \o Arbitrators[TierResolved(Arbitrators, arb)]
            \o <<" ","h","a","s"," ","r","u","l","e","d"," ","f","o","r"," ","t","h","e"," ","c","o","n","s","u","m","e","r"," ","a","g","a","i","n","s","t"," ">>
            \o Respondents[TierResolved(Respondents, resp)] \o <<" ","i","n"," ">>)

\* the names _get_specific_rulings is tried on
QueriedArbitrators == { Lower(name) : name \in QueryNames }

QueriedRespondents == { <<"a","c","m","e">>, <<"b","o","l","t">>, <<"c","o">>, <<"a",".","m","e">>, <<"a","c","m","e"," ","i","n","c">>, <<"n","o","n","e">> }

\* C20: a name is resolved by the first tier that matches, equality, substring,
\* then the words of more than 2 characters in order, each irrespective of case,
\* to the name of the first matching row; with no match the answer is the
\* "couldn't find" message
C20_TieredResolution ==
    /\ (Asked /\ intent(QueryLower) = "case_count") => CaseCountResolvedByTiers
    /\ pc = "done" =>
          \A arb \in QueriedArbitrators, resp \in QueriedRespondents :
              SpecificResolvedByTiers(arb, resp)

\* the same for the names without '.', the one character of these names that a
\* regular expression does not read as itself
C20_TiersForPlainNames ==
    /\ (Asked /\ intent(QueryLower) = "case_count" /\ ~Contains(<<".">>, CaseCountName))
          => CaseCountResolvedByTiers
    /\ pc = "done" =>
          \A arb \in QueriedArbitrators, resp \in QueriedRespondents :
              (~Contains(<<".">>, arb) /\ ~Contains(<<".">>, resp)) => SpecificResolvedByTiers(arb, resp)

\* a name was resolved by one of its words, after a word of 2 characters was passed over
C20_WordTier ==
    /\ Asked
    /\ intent(QueryLower) = "case_count"
    /\ CaseCountName = <<"z","e","d"," ","l","e","e">>
    /\ StartsWithAt(answer.s, 1, <<"A","r","b","i","t","r","a","t","o","r"," ","J","o"," ","L","e","e"," ","h","a","s"," ","h","a","n","d","l","e","d"," ">>)

\* the tier and row the case-count handler resolves the name of the question to
CaseCountFound == resolve(Arbitrators, CaseCountName)

\* C21: when no tier finds the arbitrator a question names, the answer is the
\* "couldn't find" message with the name exactly as the question wrote it
C21_NotFoundNamesQueryVerbatim ==
    \A name \in QueryNames :
        (Asked /\ query.s = CaseCountQuestion(name) /\ CaseCountFound.row = 0)
            => answer.s = arbitrator_not_found(name)

\* the message is given, with the name as the handler has cleaned it
C21_NotFoundMessage ==
    (Asked /\ intent(QueryLower) = "case_count" /\ CaseCountFound.row = 0)
        => answer.s = arbitrator_not_found(CaseCountName)

\* a name of the question that no tier found and that the cleaning shortened
C21_NotFound ==
    /\ Asked
    /\ query.s = CaseCountQuestion(<<"n","o","a","h">>)
    /\ answer.s = arbitrator_not_found(<<"n","o">>)

\* the answer of the case-count handler for the name actual_name and a count
CaseCountSentence(actual_name, case_count) ==
    <<"A","r","b","i","t","r","a","t","o","r"," ">> \o actual_name \o <<" ","h","a","s"," ","h","a","n","d","l","e","d"," ">> \o IntToStr(case_count)
    \o <<" ","a","r","b","i","t","r","a","t","i","o","n"," ","c","a","s","e","s"," ","i","n"," ","t","h","e"," ","d","a","t","a","s","e","t",".">>

\* C23: the count in the answer to a case-count question is the number of rows
\* whose arbitrator_name is exactly the resolved name shown in the answer
C23_CountOfResolvedName ==
    (Asked /\ intent(QueryLower) = "case_count" /\ CaseCountFound.row # 0) =>
        answer.s = CaseCountSentence(Arbitrators[CaseCountFound.row],
                        CountTrue(equals_mask(Arbitrators, Arbitrators[CaseCountFound.row])))

\* the same for the names resolved by the substring tier or the word tier
C23_CountOutsideEqualityTier ==
    (Asked /\ intent(QueryLower) = "case_count" /\ CaseCountFound.row # 0
        /\ CaseCountFound.tier # "exact") =>
        answer.s = CaseCountSentence(Arbitrators[CaseCountFound.row],
                        CountTrue(equals_mask(Arbitrators, Arbitrators[CaseCountFound.row])))

\* a name resolved by equality in a dataset that holds it in two casings
C23_TwoCasings ==
    /\ Asked
    /\ query.s = CaseCountQuestion(<<"J","o"," ","L","e","e">>)
    /\ CaseCountFound.tier = "exact"
    /\ \E i, j \in 1..Len(Arbitrators) : Arbitrators[i] = <<"J","o"," ","L","e","e">> /\ Arbitrators[j] = <<"J","O"," ","L","E","E">>

\* the question of C22 has been put about a dataset with exactly seven rows of
\* "John L. Smith Esq."
SevenAsked ==
    /\ Asked
    /\ query.s = CaseCountQuestion(<<"J","o","h","n"," ","S","m","i","t","h">>)
    /\ CountTrue(equals_mask(Arbitrators, JohnLSmithEsq)) = 7

\* no name of the dataset contains "john smit", and the first name that
\* contains "john" is "John L. Smith Esq."
FirstJohn ==
    /\ TierSubstring(Arbitrators, <<"j","o","h","n"," ","s","m","i","t">>) = 0
    /\ TierSubstring(Arbitrators, <<"j","o","h","n">>) # 0
    /\ Arbitrators[TierSubstring(Arbitrators, <<"j","o","h","n">>)] = JohnLSmithEsq

SourceNamedIn(text) ==
    IF Contains(<<"a","a","a">>, Lower(text)) \/ Contains(<<"a","m","e","r","i","c","a","n"," ","a","r","b","i","t","r","a","t","i","o","n">>, Lower(text)) THEN "AAA"
    ELSE IF Contains(<<"j","a","m","s">>, Lower(text)) THEN "JAMS"
    ELSE "none"

\* the first five rows of a file
Preview(file) == SubSeq(file.rows, 1, IF Len(file.rows) < 5 THEN Len(file.rows) ELSE 5)

\* the source of a file according to C24
SourceByRule(file) ==
    IF Contains(<<"a","a","a">>, Lower(file.name)) THEN "AAA"
    ELSE IF Contains(<<"j","a","m","s">>, Lower(file.name)) THEN "JAMS"
    ELSE IF ~file.readable THEN "AAA"
    ELSE IF SourceNamedIn(JoinWithSpace(file.columns)) # "none"
      THEN SourceNamedIn(JoinWithSpace(file.columns))
    ELSE IF SourceNamedIn(JoinWithSpace(FlattenRows(Preview(file)))) # "none"
      THEN SourceNamedIn(JoinWithSpace(FlattenRows(Preview(file))))
    ELSE "AAA"

\* C24: the source of a file is AAA or JAMS by its name, else by the column
\* names of its preview, else by the cell values of its preview, else AAA; every
\* record normalized from the file has that source as its forum
C24_SourceIsForum ==
    /\ \A k \in 1..Len(file_paths) : SourceOf(file_paths[k]) = SourceByRule(file_paths[k])
    /\ (Len(file_paths) = 1 /\ Len(all_dataframes) = 1) =>
          \A i \in 1..Len(all_dataframes[1]) :
              all_dataframes[1][i].Forum = Str(SourceByRule(file_paths[1]))
    /\ \A i \in 1..Len(combined_df) :
          /\ combined_df[i].Forum \in {Str("AAA"), Str("JAMS")}
          /\ Len(file_paths) = 1 => combined_df[i].Forum = Str(SourceByRule(file_paths[1]))

\* a file whose name and columns name no source, and whose cells name JAMS
C24_Witness ==
    /\ pc = "done"
    /\ Len(file_paths) = 1
    /\ SourceNamedIn(file_paths[1].name) = "none"
    /\ SourceNamedIn(JoinWithSpace(file_paths[1].columns)) = "none"
    /\ combined_df # <<>>
    /\ \A i \in 1..Len(combined_df) : combined_df[i].Forum = Str("JAMS")

\* ===================================================== batch persistence claims
\* the save_data calls made on the store, in order
SaveCalls == SelectSeq(db_calls, LAMBDA call : call.op = "save_data")

\* the rows handed to the store, call after call
RowsSaved == Flatten([c \in 1..Len(SaveCalls) |-> SaveCalls[c].data])

\* the dataset was saved in batches: the store was connected and no call raised
SavedInBatches ==
    /\ pc = "done"
    /\ is_large_dataset(combined_df)
    /\ db_calls # <<>>
    /\ \A c \in 1..Len(db_calls) : db_calls[c].outcome # "raises"

\* C25: a dataset of more than 1000 records is saved in consecutive batches of
\* at most 500 rows which, put one after the other, are the dataset; when every
\* batch succeeds the inserted and updated counts of the summary are the sums of
\* those of the batches
C25_BatchesPartitionDataset ==
    /\ (pc = "done" /\ is_large_dataset(combined_df)) =>
          /\ \A c \in 1..Len(SaveCalls) :
                SaveCalls[c].data # <<>> /\ Len(SaveCalls[c].data) <= 500
          /\ RowsSaved = SubSeq(combined_df, 1, Len(RowsSaved))
    /\ SavedInBatches => RowsSaved = combined_df
    /\ (SavedInBatches /\ \A c \in 1..Len(SaveCalls) : SaveCalls[c].outcome # "error") =>
          /\ db_result.inserted =
                SumSeq([c \in 1..Len(SaveCalls) |->
                            save_data(SaveCalls[c].data, SaveCalls[c].outcome).inserted])
          /\ db_result.updated =
                SumSeq([c \in 1..Len(SaveCalls) |->
                            save_data(SaveCalls[c].data, SaveCalls[c].outcome).updated])

\* 1001 records were saved in three batches, of which two inserted their rows
\* and one updated them
C25_Witness ==
    /\ SavedInBatches
    /\ Len(combined_df) = 1001
    /\ Len(SaveCalls) = 3
    /\ Len(SaveCalls[3].data) = 1
    /\ db_result.status = "success"
    /\ db_result.inserted = 501
    /\ db_result.updated = 500

\* ===================================================== more Deduplicator claims
\* the respondent or the filing date of a record is absent
TripleIncomplete(row) == IsNull(row.Respondent_Name) \/ IsNull(row.Date_Filed)

\* C27: pass 2 of _handle_duplicates removes no record whose respondent_name or
\* date_filed is absent: every such record left by pass 1 is in the result, also
\* when another record agrees with it on the triple
C27_IncompleteTripleSurvivesPass2 ==
    [][pc = "handle_duplicates" =>
          \A i \in 1..Len(pass1_df') :
              TripleIncomplete(pass1_df'[i]) =>
                  \E j \in 1..Len(combined_df') : combined_df'[j] = pass1_df'[i]]_vars

\* two records that agree on a triple without respondent have both passed pass 2
C27_Witness ==
    /\ pc = "final_cleaning"
    /\ \E i, j \in 1..Len(combined_df) :
          /\ i # j
          /\ SameTriple(combined_df[i], combined_df[j])
          /\ IsNull(combined_df[i].Respondent_Name)
          /\ ~IsNull(combined_df[i].Date_Filed)

\* ===================================================== more Column Mapper claims
\* C28: in one normalization no input column is the source of two canonical
\* fields
C28_MappingInjective ==
    \A k \in 1..Len(mapped) : \A f, g \in Range(FieldTypes) :
        (f # g /\ mapped[k][f] # Null) => mapped[k][f] # mapped[k][g]

\* a file was normalized whose column "Name" is the source of more than one field
C28_SharedColumn ==
    /\ file_idx = 1
    /\ file_paths[1].columns = << <<"C","a","s","e"," ","I","D">>, <<"N","a","m","e">> >>
    /\ mapped[1].arbitrator_name = Str(<<"N","a","m","e">>)
    /\ mapped[1].respondent_name = Str(<<"N","a","m","e">>)
    /\ all_dataframes # <<>> /\ all_dataframes[1] # <<>>

\* ===================================================== chunk loop claims
\* the file has chunks and the processing of each of them raises
AllChunksFail(file) ==
    ChunkCount(file) > 0 /\ FailedChunks(file) = 1..ChunkCount(file)

\* the one-iteration loop leaves a file as process_file does
LoopAgreesWithProcessFile ==
    (file_idx = 1 /\ chunk_loop.state = "outside") =>
        /\ mapped = << process_file(file_paths[1], SourceOf(file_paths[1])).mapping >>
        /\ all_dataframes =
              IF process_file(file_paths[1], SourceOf(file_paths[1])).raised THEN <<>>
              ELSE << process_file(file_paths[1], SourceOf(file_paths[1])).rows >>

\* C26: the loop over the chunks ends for every file and every pattern of
\* failing chunks: an iteration leaves the loop or moves the offset forward,
\* every iteration changes the position of the loop, the offset of a running
\* loop is at most the number of rows of the file, and the loop is eventually
\* left; a loop in which every chunk has failed is left by the exception, not by
\* a break, and the file is then skipped
C26_ChunkLoopTerminates ==
    /\ [][chunk_loop.state = "reading" =>
              \/ chunk_loop'.state \in {"ended", "aborted"}
              \/ chunk_loop'.state = "reading" /\ chunk_loop'.offset > chunk_loop.offset]_vars
    /\ [](chunk_loop.state = "reading" =>
              /\ chunk_loop.offset <= Len(file_paths[1].rows)
              /\ chunk_iteration(file_paths[1], SourceOf(file_paths[1]), chunk_loop) # chunk_loop)
    /\ <>(chunk_loop.state = "outside")
    /\ []((chunk_loop.offset > 0 /\ chunk_loop.chunk_dfs = <<>>) => chunk_loop.state # "ended")
    /\ [][chunk_loop.state = "aborted" => all_dataframes' = all_dataframes]_vars

\* every chunk of a file of two chunks has failed, and the loop was left by the
\* exception after its second iteration
C26_Witness ==
    /\ ChunkCount(file_paths[1]) = 2
    /\ AllChunksFail(file_paths[1])
    /\ chunk_loop.state = "aborted"
    /\ chunk_loop.offset = 2000


\* =========================================================== progress
\* The fractions process_files passes to report_progress, as exact quotients
\* [num, den] of integers (den > 0).
Frac(num, den) == [num |-> num, den |-> den]

FracLeq(a, b) ==
    IF a.den = b.den THEN a.num <= b.num ELSE a.num * b.den <= b.num * a.den

\* chunk_file_progress = file_progress + min(0.8, offset / total_rows) / total_files,
\* for the file of index k (from 0) out of n
chunk_file_progress(file, offset, k, n) ==
    IF 5 * offset >= 4 * total_rows(file) THEN Frac(10 * k + 8, 10 * n)
    ELSE Frac(k * total_rows(file) + offset, n * total_rows(file))

\* the reports of the loop over the chunks from the given position on: one at
\* the head of every iteration, and the same fraction again when the chunk fails
RECURSIVE loop_reports(_, _, _, _, _)
loop_reports(file, source, loop, k, n) ==
    LET next   == chunk_iteration(file, source, loop)
        failed == next.chunk_dfs = loop.chunk_dfs /\ next.offset # loop.offset
    IN  << chunk_file_progress(file, loop.offset, k, n) >>
        \o (IF failed THEN << chunk_file_progress(file, loop.offset, k, n) >> ELSE <<>>)
        \o (IF next.state = "reading" THEN loop_reports(file, source, next, k, n) ELSE <<>>)

\* the reports of one iteration of the loop over file_paths, for the file of
\* index k (from 0) out of n: file_progress, then those of its branch, then
\* file_progress + 0.95 / total_files ("Completed file", or the error message)
file_reports(file, k, n) ==
    << Frac(k, n) >>
    \o (IF is_large_file(file)
          THEN << Frac(100 * k + 2 * n, 100 * n) >>
               \o (IF ~file.readable THEN <<>>
                   ELSE loop_reports(file, SourceOf(file), loop_start, k, n)
                        \o (IF process_file(file, SourceOf(file)).raised THEN <<>>
                            ELSE << Frac(10 * k + 9, 10 * n) >>))
        ELSE << Frac(10 * k + 3, 10 * n) >>
             \o (IF file.readable THEN << Frac(10 * k + 6, 10 * n) >> ELSE <<>>))
    \o << Frac(100 * k + 95, 100 * n) >>

\* the reports of the steps between the loop over the files and the saving,
\* each made before its step: 0.85, 0.88, 0.90, 0.92, 0.94
pipeline_reports(position) ==
    SubSeq(<< Frac(85, 100), Frac(88, 100), Frac(90, 100), Frac(92, 100), Frac(94, 100) >>,
           1,
           CASE position = "files" -> 0
             [] position = "handle_duplicates" -> 1
             [] position = "final_cleaning" -> 2
             [] position = "prevailed_flags" -> 3
             [] position = "case_duration" -> 4
             [] OTHER -> 5)

\* the reports of `if save_to_db:`, given the calls made on the store: none when
\* the dataset is not saved; else 0.95, then 0.96 and, for a dataset saved in
\* batches, 0.96 + 0.03 * i / len(combined_df) before the batch that starts at
\* row i, then 0.99 (also from the except branch)
save_reports(df, calls) ==
    IF calls = <<>> THEN <<>>
    ELSE << Frac(95, 100) >>
         \o (IF calls[1].outcome = "raises" THEN <<>>
             ELSE << Frac(96, 100) >>
                  \o (IF is_large_dataset(df)
                        THEN [b \in 1..(Len(calls) - 1) |->
                                 Frac(96 * Len(df) + 3 * (b - 1) * rows_per_batch,
                                      100 * Len(df))]
                      ELSE <<>>))
         \o << Frac(99, 100) >>

\* every fraction process_files has reported when it is in the present state
reported ==
    Flatten([j \in 1..file_idx |-> file_reports(file_paths[j], j - 1, Len(file_paths))])
    \o (IF all_dataframes = <<>> THEN <<>> ELSE pipeline_reports(pc))
    \o (IF pc # "done" THEN <<>>
        ELSE (IF all_dataframes = <<>> THEN <<>> ELSE save_reports(combined_df, db_calls))
             \o << Frac(1, 1) >>)

\* ---------------------------------------------------- progress claims
NonDecreasing(fractions) ==
    \A i \in 1..(Len(fractions) - 1) : FracLeq(fractions[i], fractions[i + 1])

InUnitInterval(fractions) ==
    \A i \in 1..Len(fractions) :
        FracLeq(Frac(0, 1), fractions[i]) /\ FracLeq(fractions[i], Frac(1, 1))

\* C29: over one run of process_files the fractions reported are non-decreasing,
\* every fraction lies in [0, 1], and the last fraction reported is 1.0
C29_ProgressNonDecreasing ==
    /\ NonDecreasing(reported)
    /\ InUnitInterval(reported)
    /\ pc = "done" => reported[Len(reported)] = Frac(1, 1)

\* the fractions lie in [0, 1] (for the numbers of files of the model)
C29_ProgressInUnitInterval == InUnitInterval(reported)

\* the last fraction of a run is 1.0
C29_LastFractionIsOne == pc = "done" => reported[Len(reported)] = Frac(1, 1)

\* inside one iteration of the loop over file_paths the fractions of a file
\* that is not large do not decrease
C29_SmallFileNonDecreasing ==
    \A j \in 1..file_idx :
        ~is_large_file(file_paths[j])
            => NonDecreasing(file_reports(file_paths[j], j - 1, Len(file_paths)))

\* the last file has been completed at 0.95 or more and the combining of the
\* files has been reported at 0.85
C29_CombiningAfterLastFile ==
    /\ pc = "handle_duplicates"
    /\ Len(reported) >= 2
    /\ reported[Len(reported)] = Frac(85, 100)
    /\ FracLeq(Frac(95, 100), reported[Len(reported) - 1])


\* ===================================================== database.py
\* ArbitrationDatabase.save_data on the table arbitration_cases.  The table is a
\* sequence of rows over the columns below (three of the columns of
\* _define_table), NULL being Null; a DataFrame handed to save_data is a
\* sequence of rows over the same columns, NaN and None being Null.
DbColumns == {"case_id", "arbitrator_name", "respondent_name"}

\* the keys of {k: v for k, v in row.items() if not pd.isna(v)}
row_dict(row) == {c \in DbColumns : ~IsNull(row[c])}

\* existing_ids: the case ids of the DataFrame that the table holds
existing_ids(table, db_data) ==
    {table[i].case_id : i \in 1..Len(table)} \cap {db_data[i].case_id : i \in 1..Len(db_data)}

\* records_to_insert: the rows whose case id is not stored yet
records_to_insert(table, db_data) ==
    SelectSeq(db_data, LAMBDA row : row.case_id \notin existing_ids(table, db_data))

batch_size == 250

\* records_to_insert[i:i+batch_size] for i in range(0, len(records_to_insert), batch_size)
insert_batches(records) ==
    [b \in 1..((Len(records) + batch_size - 1) \div batch_size) |->
        SubSeq(records, (b - 1) * batch_size + 1,
               IF b * batch_size < Len(records) THEN b * batch_size ELSE Len(records))]

\* conn.execute(self.arbitration_cases.insert(), batch) with a list of
\* dictionaries: SQLAlchemy compiles the INSERT for the keys of the first
\* dictionary.  A later dictionary without one of these keys raises a
\* StatementError; a key it has beyond them is not part of the statement.  A row
\* without case_id (nullable=False) and a case id that is stored or inserted
\* already (unique=True) raise an IntegrityError.
insert_raises(table, records) ==
    \/ \E i \in 1..Len(records) : ~(row_dict(records[1]) \subseteq row_dict(records[i]))
    \/ "case_id" \notin row_dict(records[1])
    \/ \E i, j \in 1..Len(records) : i # j /\ records[i].case_id = records[j].case_id
    \/ \E i \in 1..Len(records), j \in 1..Len(table) : records[i].case_id = table[j].case_id

\* the rows the INSERT of a batch adds to the table
inserted_rows(records) ==
    [i \in 1..Len(records) |->
        [c \in DbColumns |-> IF c \in row_dict(records[1]) THEN records[i][c] ELSE Null]]

\* the batches are inserted one after the other
RECURSIVE insert_all(_, _)
insert_all(table, batches) ==
    IF batches = <<>> THEN [raised |-> FALSE, table |-> table]
    ELSE IF insert_raises(table, Head(batches)) THEN [raised |-> TRUE, table |-> table]
    ELSE insert_all(table \o inserted_rows(Head(batches)), Tail(batches))

\* the values of the UPDATE of one row: its columns other than case_id that are
\* not NaN
update_values(row) == row_dict(row) \ {"case_id"}

\* update().where(case_id == case_id_str).values(**row_dict)
update_row(table, row) ==
    [i \in 1..Len(table) |->
        IF table[i].case_id = row.case_id
          THEN [c \in DbColumns |-> IF c \in update_values(row) THEN row[c] ELSE table[i][c]]
        ELSE table[i]]

\* the second pass: the rows whose case id was stored are updated in order
RECURSIVE update_all(_, _)
update_all(table, rows) ==
    IF rows = <<>> THEN table
    ELSE update_all(IF update_values(Head(rows)) = {} THEN table
                    ELSE update_row(table, Head(rows)),
                    Tail(rows))

\* what the store does with the transaction of one call: it completes, or a
\* statement raises an SQLAlchemyError for a reason of the store's own
TransactionOutcomes == {"completes", "error"}

\* save_data on a table: the table it leaves and the result it returns.  The
\* statements run in one transaction (`with self.engine.begin() as conn:`), which
\* is rolled back when one of them raises.
save_data_on(table, db_data, outcome) ==
    LET existing == SelectSeq(db_data, LAMBDA row : row.case_id \in existing_ids(table, db_data))
        inserts  == insert_all(table, insert_batches(records_to_insert(table, db_data)))
    IN  IF outcome = "error" \/ inserts.raised
          THEN [ table  |-> table,
                 result |-> [status |-> "error", message |-> "SQLAlchemyError"] ]
        ELSE [ table  |-> update_all(inserts.table, existing),
               result |-> [ status   |-> "success",
                            inserted |-> Len(records_to_insert(table, db_data)),
                            updated  |-> Len(SelectSeq(existing,
                                             LAMBDA row : update_values(row) # {})),
                            total    |-> Len(db_data) ] ]

\* the table after a sequence of save_data calls on an empty table
RECURSIVE table_after(_)
table_after(calls) ==
    IF calls = <<>> THEN <<>>
    ELSE save_data_on(table_after(SubSeq(calls, 1, Len(calls) - 1)),
                      calls[Len(calls)].data, calls[Len(calls)].outcome).table

\* ------------------------------------------------- save_data: inputs
MaxSaves == 2

MaxRecords == 2

\* the rows of a DataFrame: a case id, with or without the two other columns
DbRows ==
    { [case_id |-> id, arbitrator_name |-> arb, respondent_name |-> resp] :
        id \in {Str(<<"A">>), Str(<<"B">>)},
        arb \in {Null, Str(<<"X">>), Str(<<"Y">>)},
        resp \in {Null, Str(<<"R">>)} }

RecordSets == SeqsUpTo(DbRows, MaxRecords)

\* a client that calls save_data on a new table, one call after the other
SaveData ==
    /\ pc = "store"
    /\ Len(db_calls) < MaxSaves
    /\ \E db_data \in RecordSets, outcome \in TransactionOutcomes :
          /\ db_calls' = Append(db_calls, [op |-> "save_data", data |-> db_data,
                                           outcome |-> outcome])
          /\ db_result' = save_data_on(table_after(db_calls), db_data, outcome).result
    /\ UNCHANGED <<file_paths, file_idx, all_dataframes, mapped, pass1_df, combined_df,
                   pc, chunk_loop, query, answer>>

InitStore ==
    /\ file_paths = <<>>
    /\ file_idx = 0
    /\ all_dataframes = <<>>
    /\ mapped = <<>>
    /\ pass1_df = <<>>
    /\ combined_df = <<>>
    /\ db_result = not_saved
    /\ db_calls = <<>>
    /\ pc = "store"
    /\ chunk_loop = outside_loop
    /\ query = Null
    /\ answer = Null

SpecStore == InitStore /\ [][SaveData]_vars

\* ------------------------------------------------- save_data claims
\* the table before and after the n-th call, and the result of that call
TableBefore(n) == table_after(SubSeq(db_calls, 1, n - 1))

TableAfter(n) == table_after(SubSeq(db_calls, 1, n))

ResultOf(n) == save_data_on(TableBefore(n), db_calls[n].data, db_calls[n].outcome).result

CaseIds(rows) == {rows[i].case_id : i \in 1..Len(rows)}

UniqueCaseIds(rows) == \A i, j \in 1..Len(rows) : rows[i].case_id = rows[j].case_id => i = j

Succeeded(n) == ResultOf(n).status = "success"

\* one row per case id ever saved, after successful saves only
OneRowPerCaseId ==
    (\A n \in 1..Len(db_calls) : Succeeded(n))
        => /\ UniqueCaseIds(table_after(db_calls))
           /\ CaseIds(table_after(db_calls)) =
                 UNION {CaseIds(db_calls[n].data) : n \in 1..Len(db_calls)}

\* inserted is the number of records whose case id was not stored yet
InsertedCountsNewIds ==
    \A n \in 1..Len(db_calls) :
        Succeeded(n) =>
            ResultOf(n).inserted =
                Cardinality({i \in 1..Len(db_calls[n].data) :
                                db_calls[n].data[i].case_id \notin CaseIds(TableBefore(n))})

\* the second of two successful saves of the same record-set changes nothing
SecondSaveChangesNothing ==
    \A n \in 2..Len(db_calls) :
        (db_calls[n].data = db_calls[n - 1].data /\ Succeeded(n - 1) /\ Succeeded(n))
            => TableAfter(n) = TableBefore(n) /\ ResultOf(n).inserted = 0

\* no call replaces a stored value by an absent one
NoValueLost ==
    \A n \in 1..Len(db_calls) :
        \A i \in 1..Len(TableBefore(n)) :
            \A c \in DbColumns :
                ~IsNull(TableBefore(n)[i][c]) => ~IsNull(TableAfter(n)[i][c])

\* a call that returns an error result leaves the table as it was
ErrorLeavesTable ==
    \A n \in 1..Len(db_calls) : ~Succeeded(n) => TableAfter(n) = TableBefore(n)

\* C30: save_data is an upsert keyed by case_id: one row per case id ever saved,
\* inserted counts the case ids not stored before, a second save of the same
\* record-set changes nothing and inserts nothing, no stored value is replaced
\* by an absent one, and a save that returns an error leaves the table as it was
C30_SaveDataIsUpsert ==
    /\ OneRowPerCaseId
    /\ InsertedCountsNewIds
    /\ SecondSaveChangesNothing
    /\ NoValueLost
    /\ ErrorLeavesTable

\* the parts of the claim other than the repeated save
C30_UpsertButRepeatedSave ==
    /\ OneRowPerCaseId
    /\ InsertedCountsNewIds
    /\ NoValueLost
    /\ ErrorLeavesTable

\* a repeated save changes nothing when the records of the set have their
\* values in the same columns
C30_RepeatedSaveOfUniformSet ==
    \A n \in 2..Len(db_calls) :
        (/\ db_calls[n].data = db_calls[n - 1].data
         /\ Succeeded(n - 1) /\ Succeeded(n)
         /\ \A i \in 1..Len(db_calls[n].data) :
                row_dict(db_calls[n].data[i]) = row_dict(db_calls[n].data[1]))
            => TableAfter(n) = TableBefore(n) /\ ResultOf(n).inserted = 0

\* a record-set has been saved twice, both times with success, and the second
\* save has changed the table
C30_SecondSaveChangedTable ==
    /\ Len(db_calls) = 2
    /\ db_calls[2].data = db_calls[1].data
    /\ UniqueCaseIds(db_calls[1].data)
    /\ Succeeded(1) /\ Succeeded(2)
    /\ TableAfter(2) # TableAfter(1)

=============================================================================
